---- MODULE Spec2Model ----
(***************************************************************************)
(* TNT (fremen-fi/TNT): the per-file pipeline processFile and the batch    *)
(* worker pool process() of the AudioNormalizer, as state machines.        *)
(*                                                                         *)
(* A run of processFile is split at its external-engine invocations: each  *)
(* action is the code from one blocking subprocess call (or group of       *)
(* calls made by one analysis helper) up to the next, with the outcome of  *)
(* the subprocess drawn from the environment.  Strings that only matter    *)
(* through being empty or not (filter chains) are "" or a fixed token.     *)
(***************************************************************************)
EXTENDS FiniteSets, Integers, Sequences, TLC

VARIABLES
    \* ---- one run of processFile (src/unnamed/part_007:1872-2482) ----
    cfg,            \* ProcessConfig captured by getProcessConfig
    ui,             \* fields of *AudioNormalizer read by processFile
    inputPath,      \* argument inputPath
    pc,             \* position of the run inside processFile
    workingPath,    \* local workingPath
    attenuatedPath, \* local attenuatedPath of stage 3
    outputPath,     \* local outputPath
    tempFiles,      \* local tempFiles
    measured,       \* local measured (nil or the parsed key set)
    dsAnalysis,     \* local dsAnalysis (nil or not)
    invocations,    \* history: the external-engine commands issued so far
    statusLog,      \* lines appended to n.statusLog by this run
    fs,             \* paths that exist on disk
    clock,          \* time.Now().UnixNano()
    result,         \* value returned by processFile
    \* ---- one batch of process() (src/unnamed/part_007:1775-1870) ----
    files,          \* n.files
    jobs,           \* channel jobs (buffered, len(n.files))
    jobsClosed,     \* close(jobs) has happened
    nextFile,       \* index of the enqueue loop
    results,        \* channel results (buffered, len(n.files))
    resultsClosed,  \* close(results) has happened
    worker,         \* per worker goroutine: position and current file
    wg,             \* sync.WaitGroup counter
    processed,      \* collector: processed
    successful,     \* collector: successful
    handled,        \* history: per file, how many times a worker received it
    produced,       \* history: per file, the results sent for it
    bpc,            \* position of the anonymous batch goroutine
    \* ---- concurrent runs and the shared temp directory ----
    runs,           \* per concurrent run of processFile: position, tempFiles
    nanoTime,       \* the reading of time.Now().UnixNano()
    tempDir,        \* files present in os.TempDir()
    \* ---- watch mode (src/unnamed/part_007:1399-1475) ----
    widgets,        \* the settings widgets read by getProcessConfig
    watching,       \* n.watching
    stopClosed,     \* close(n.watcherStop) has happened
    jobQueue,       \* channel n.jobQueue (buffered, 100)
    nextEvent,      \* the next file the file-system watcher reports
    wd,             \* goroutine watchDirectory: position and pending event
    wq,             \* goroutine processWatchQueue: position and current file
    sw,             \* position of stopWatching
    detected,       \* history: per file, the configuration when it was enqueued
    started,        \* history: the runs started by processWatchQueue
    prev,           \* the two goroutines of the start before the last one
    \* ---- the settings a run reads from the window ----
    args,           \* locals args, target of processFile (lines 1943-2054)
    submitted,      \* history: ui when the ProcessConfig was captured
    \* ---- the numeric helpers, applied to one input ----
    fnIn,           \* the function called and its arguments
    fnOut           \* whether it has returned, and its result

runVars == <<cfg, ui, inputPath, pc, workingPath, attenuatedPath, outputPath,
             tempFiles, measured, dsAnalysis, invocations, statusLog, fs,
             clock, result>>
batchVars == <<files, jobs, jobsClosed, nextFile, results, resultsClosed,
               worker, wg, processed, successful, handled, produced,
               bpc>>
concVars == <<runs, nanoTime, tempDir>>
watchVars == <<widgets, watching, stopClosed, jobQueue, nextEvent, wd, wq, sw,
               detected, started, prev>>
liveVars == <<args, submitted>>
pureVars == <<fnIn, fnOut>>
extVars == <<concVars, watchVars, liveVars, pureVars>>
vars == <<runVars, batchVars, extVars>>

----------------------------------------------------------------------------
(* Bounds of the exploration *)

\* at most this many of the band measurements of one analysis fail, unless
\* all of them fail
MaxFailedBands == 1

\* a batch has 1..MaxFiles files and runs on a machine of 1..MaxCPU cores
MaxFiles == 2
MaxCPU == 3

\* this many runs of processFile execute at the same time, and the clock is
\* read at 1..MaxTicks
MaxRuns == 2
MaxTicks == 2

\* the watched directory receives this many new audio files
MaxEvents == 2

\* Dynamics Scores are drawn from 0..MaxScore hundredths
MaxScore == 10100

(* Program constants *)

NumEqBands == 10
NumMbBands == 5

----------------------------------------------------------------------------
(* Paths.  A path is a directory (sequence of components) and a file name  *)
(* (sequence of tokens whose concatenation is the name).                   *)

Path(d, nm) == [dir |-> d, name |-> nm]
NoPath == Path(<<>>, <<>>)

TempDir == <<"tmp">>

Join(d, nm) == Path(d, nm)

\* filepath.Ext / strings.TrimSuffix(filepath.Base(p), filepath.Ext(p))
Ext(p) == p.name[Len(p.name)]
BaseName(p) == SubSeq(p.name, 1, Len(p.name) - 1)

IsPrefix(s, t) == Len(s) <= Len(t) /\ SubSeq(t, 1, Len(s)) = s

\* filepath.Rel(base, target) for a target below base; "" (the empty
\* sequence) when Rel reports an error
Rel(base, target) ==
    IF IsPrefix(base, target) THEN SubSeq(target, Len(base) + 1, Len(target))
    ELSE <<>>

TempPath(prefix, t) == Path(TempDir, <<prefix, ToString(t), ".wav">>)

Range(s) == {s[i] : i \in 1..Len(s)}

----------------------------------------------------------------------------
(* Output path *)

\* getPlatformCodecMap()[cfg.Format], else config.GetCodec(cfg.Format)
getPlatformCodecMap(format) ==
    CASE format = "AAC (Fraunhofer)" -> "libfdk_aac"
      [] format = "AAC (Apple)"      -> "aac_at"
      [] OTHER                       -> ""

GetCodec(uiName) ==
    CASE uiName = "Opus"       -> "libopus"
      [] uiName = "AAC"        -> "libfdk_aac"
      [] uiName = "MPEG-II L3" -> "libmp3lame"
      [] uiName = "PCM"        -> "PCM"
      [] uiName = "FLAC"       -> "flac"
      [] OTHER                 -> uiName

ActualCodec(format) ==
    IF getPlatformCodecMap(format) # "" THEN getPlatformCodecMap(format)
    ELSE IF GetCodec(format) # "" THEN GetCodec(format)
    ELSE format


\* switch actualCodec { ... default: ext = filepath.Ext(inputPath) }
OutputExt(codec, inp) ==
    CASE codec = "libopus"    -> ".opus"
      [] codec = "libfdk_aac" -> ".m4a"
      [] codec = "aac"        -> ".m4a"
      [] codec = "libmp3lame" -> ".mp3"
      [] codec = "PCM"        -> ".wav"
      [] codec = "aac_at"     -> ".m4a"
      [] codec = "flac"       -> ".flac"
      [] OTHER                -> Ext(inp)

OutputDirOf(u, inp) ==
    IF u.batchMode /\ u.inputDir # <<>>
    THEN u.outputDir \o Rel(u.inputDir, inp.dir)
    ELSE u.outputDir

OutputPathOf(c, u, inp) ==
    LET ext == OutputExt(ActualCodec(c.Format), inp)
        dir == OutputDirOf(u, inp)
        base == BaseName(inp)
    IN  IF c.UseLoudnorm THEN Join(dir, base \o <<".normalized", ext>>)
        ELSE IF c.writeTags /\ c.noTranscode
             THEN Join(dir, base \o <<".tagged", Ext(inp)>>)
        ELSE IF c.writeTags THEN Join(dir, base \o <<".tagged", ext>>)
        ELSE Join(dir, base \o <<ext>>)

----------------------------------------------------------------------------
(* Stage guards *)

EqEnabled(c) == c.EqTarget # "" /\ c.EqTarget # "Off" /\ ~c.bypassProc
DynamicsEnabled(c) ==
    c.DynamicsPreset # "" /\ c.DynamicsPreset # "Off" /\ ~c.bypassProc
DynNormIgnoringBypass(c) == c.DynNorm
DynNormEnabled(c) == c.DynNorm /\ ~c.bypassProc

----------------------------------------------------------------------------
(* Temp artifacts *)

cleanupTempFiles(fls, disk) == disk \ Range(fls)

\* defer func() { cleanupTempFiles(tempFiles) }(): the closure reads the
\* variable when the function returns
DeferredFilesEager(atDefer, atReturn) == atDefer
DeferredFiles(atDefer, atReturn) == atReturn

\* the file system after processFile has returned with temp list fls
AfterReturn(fls, disk) == cleanupTempFiles(DeferredFiles(<<>>, fls), disk)

\* an invocation "-y out": the file exists after a success; after a failure
\* the engine may or may not have left a (partial) file
AfterWrite(disk, out, ok, left) ==
    IF ok \/ left THEN disk \cup {out} ELSE disk

----------------------------------------------------------------------------
(* Invocation records *)

NoPeak == 999

\* one command line handed to the engine: what it reads, what it writes
\* (NoPath for "-f null -"), whether it exited 0; failed counts the failed
\* band measurements of an analysis helper, arg is the peak read by the
\* peak check or the gain of the attenuation, overall is the peak of the
\* Overall section of the peak check's output, tags and loudnorm tell what
\* the final encode carries
Inv(op, src, out, ok) ==
    [op |-> op, input |-> src, output |-> out, ok |-> ok, failed |-> 0,
     arg |-> 0, overall |-> 0, tags |-> FALSE, loudnorm |-> FALSE,
     copy |-> FALSE, target |-> ""]

Line(mark, text) == [mark |-> mark, text |-> text]

NilMeasured == [nil |-> TRUE, keys |-> {}, from |-> NoPath]

----------------------------------------------------------------------------
(* Analysis helpers: what they return for a given outcome of their         *)
(* subprocess calls                                                        *)

EqBands == 1..NumEqBands
MbBands == 1..NumMbBands

\* the sets of failing band measurements the environment is drawn from
FailureSets(bands) ==
    {F \in SUBSET bands : Cardinality(F) <= MaxFailedBands \/ F = bands}

\* a failed band measurement is skipped with continue: its entry keeps the
\* zero values it was created with, and the slice always has 10 entries
analyzeFrequencyResponseBands(failedBands) ==
    [i \in EqBands |-> [measured |-> i \notin failedBands]]

\* its status lines: a start line, one line per band ("Failed to analyze"
\* for a failed one, the levels otherwise), a completion line
EqAnalysisLines(failedBands) ==
    <<Line("", "Analyzing frequency response across 10 bands...")>>
    \o [i \in EqBands |->
          IF i \in failedBands THEN Line("", "Failed to analyze band")
          ELSE Line("", "band levels")]
    \o <<Line("", "Frequency response analysis complete")>>

\* if eqBandAnalysis == nil || len(eqBandAnalysis) == 0
EqAnalysisFailed(bands) == Len(bands) = 0

\* the chain is a function of the measured levels, here given by the
\* environment; no bands or target "Off" give ""
buildEqFilter(bands, eqTarget, chain) ==
    IF Len(bands) = 0 \/ eqTarget = "Off" THEN "" ELSE chain

\* a failed band measurement is skipped with continue, and so is a band
\* whose output has no "Overall" section: the map holds the other bands
analyzeFrequencyBands(failedBands) == MbBands \ failedBands

\* if bandAnalysis == nil || len(bandAnalysis) == 0
FrequencyBandsFailed(bandAnalysis) == bandAnalysis = {}

buildMultibandCompression(bandAnalysis, preset) ==
    IF bandAnalysis = {} \/ preset = "Off" THEN "" ELSE "multiband"

\* analyzeDynamics: nil if the subprocess fails, a (possibly all-zero)
\* analysis otherwise
analyzeDynamics(ok) == IF ok THEN "analysis" ELSE "nil"

analyzeDynaudnormParams(analysis) ==
    IF analysis = "nil" THEN "nil" ELSE "params"

buildDynaudnormFilter(params) ==
    IF params = "nil" THEN "" ELSE "dynaudnorm"

calculateAdaptiveCompression(analysis, preset) ==
    IF analysis = "nil" \/ preset = "Off" THEN "" ELSE "acompressor"

\* calculateDynamicsScore: nil if the subprocess fails
calculateDynamicsScore(ok) == IF ok THEN "score" ELSE "nil"

LoudnormKeys ==
    {"input_i", "input_tp", "input_lra", "input_thresh", "target_offset"}
EbuKeys == {"input_i", "input_lra", "input_thresh", "input_tp"}

\* the key sets parseEBUR128Output is explored with: each of the two
\* fields tag mode reads ("I:" and "Peak:") may be missing from the output
EbuKeySets == {K \in SUBSET EbuKeys : {"input_lra", "input_thresh"} \subseteq K}

\* measureLoudness: nil if the subprocess fails or its output holds no JSON
\* block with "input_i"
measureLoudness(path, ok, hasJson) ==
    IF ok /\ hasJson THEN [nil |-> FALSE, keys |-> LoudnormKeys, from |-> path]
    ELSE NilMeasured

\* parseEBUR128Output always returns a map, with the keys whose line matched
parseEBUR128Output(path, keys) == [nil |-> FALSE, keys |-> keys, from |-> path]

\* n.logStatus(result["input_i"]) ... n.logStatus(result["input_tp"])
EbuValueLines(keys) ==
    [i \in 1..4 |->
       LET k == <<"input_i", "input_lra", "input_thresh", "input_tp">>[i]
       IN  Line("", IF k \in keys THEN k ELSE "")]

\* measureLoudnessEbuR128: nil only if the subprocess fails
measureLoudnessEbuR128(path, ok, keys) ==
    IF ok THEN parseEBUR128Output(path, keys) ELSE NilMeasured

----------------------------------------------------------------------------
(* Error checks of the artifact-writing invocations: if err := cmd.Run();  *)
(* err != nil { ...; return false }                                        *)

RunErrIgnored(ok) == FALSE

EqRunFailed(ok) == ~ok
DynRunFailed(ok) == ~ok
AttenRunFailed(ok) == ~ok
CompRunFailed(ok) == ~ok

\* output, err := cmd.CombinedOutput(); if err != nil { ...; return false }
EncodeFailed(ok) == ~ok

(* Status lines of the abort sites *)

NoLines == <<>>

EqAnalysisFailLines == <<Line("x", "Failed to analyze frequency response")>>
EqApplyFailLines == <<Line("x", "Failed to apply EQ")>>
DsFailLines == <<Line("x", "Failed to calculate Dynamics Score")>>
DynAnalysisFailLines == <<Line("x", "Failed to analyze for dynaudnorm")>>
DynApplyFailLines == <<Line("x", "Failed to apply dynaudnorm")>>
MeasureFailLines == <<Line("x", "Failed to measure")>>
AttenFailLines == <<Line("x", "Failed to create attenuated temp")>>
BandsFailLines == <<Line("x", "Failed to analyze frequency bands")>>
SbcFailLines == <<Line("x", "Failed to analyze dynamics")>>
CompFailLines == <<Line("x", "Failed to apply compression")>>
EncodeFailLines == <<Line("x", "Failed")>>

----------------------------------------------------------------------------
(* processFile *)

\* return false: the status lines, then the deferred cleanup
Fail(lines, tf, disk) ==
    /\ pc' = "done"
    /\ result' = FALSE
    /\ statusLog' = statusLog \o lines
    /\ tempFiles' = tf
    /\ fs' = AfterReturn(tf, disk)

Issue(inv) == invocations' = Append(invocations, inv)

\* lines 2037-2042: a custom target is given its minus sign if it has none
CustomTargets == {"", "16", "-16"}

ContainsMinus(text) == text = "-16"

WithMinus(text) == IF text = "16" THEN "-16" ELSE text

\* lines 2024-2054: the loudness target of the normalization standard
TargetOf(u) ==
    CASE u.normalizationStandard = "EBU R128 (-23 LUFS)" -> "-23"
      [] u.normalizationStandard = "USA ATSC A/85 (-24 LUFS)" -> "-24"
      [] u.normalizationStandard = "Custom" ->
            IF u.normalizeTarget # ""
            THEN IF ContainsMinus(u.normalizeTarget) THEN u.normalizeTarget
                 ELSE WithMinus(u.normalizeTarget)
            ELSE "-23"
      [] OTHER -> "-23"

\* lines 1943-2054: the encoder arguments read from the window
ArgsOf(u) == [copy |-> u.noTranscode, target |-> TargetOf(u)]

NoArgs == [copy |-> FALSE, target |-> ""]

\* lines 1872-2054: locals, output path, "Processing: ...", arguments
Start ==
    /\ pc = "start"
    /\ workingPath' = inputPath
    /\ tempFiles' = <<>>
    /\ outputPath' = OutputPathOf(cfg, ui, inputPath)
    /\ measured' = NilMeasured
    /\ dsAnalysis' = "nil"
    /\ statusLog' = Append(statusLog, Line("", "Processing"))
    /\ pc' = "eq"
    /\ args' = ArgsOf(ui)
    /\ UNCHANGED <<cfg, ui, inputPath, attenuatedPath, invocations, fs, clock,
                   result, batchVars, concVars, watchVars, submitted,
                   pureVars>>

\* Stage 1, lines 2068-2083: the 10-band analysis and the EQ chain
EqAnalysis ==
    /\ pc = "eq"
    /\ IF EqEnabled(cfg)
       THEN \E failedBands \in FailureSets(EqBands), chain \in {"", "eq"} :
              LET bands == analyzeFrequencyResponseBands(failedBands)
                  eqFilter == buildEqFilter(bands, cfg.EqTarget, chain)
              IN  /\ Issue([Inv("eq_analysis", workingPath, NoPath,
                                failedBands = {})
                              EXCEPT !.failed = Cardinality(failedBands)])
                  /\ IF EqAnalysisFailed(bands)
                     THEN Fail(EqAnalysisLines(failedBands)
                               \o EqAnalysisFailLines, tempFiles, fs)
                     ELSE /\ pc' = IF eqFilter # "" THEN "eq_apply" ELSE "ds"
                          /\ statusLog' =
                                statusLog \o EqAnalysisLines(failedBands)
                          /\ UNCHANGED <<result, tempFiles, fs>>
       ELSE /\ pc' = "ds"
            /\ UNCHANGED <<invocations, result, statusLog, tempFiles, fs>>
    /\ UNCHANGED <<cfg, ui, inputPath, workingPath, attenuatedPath, outputPath,
                   measured, dsAnalysis, clock, batchVars, extVars>>

\* Stage 1, lines 2085-2112: render the EQ into tnt_eq_<nanos>.wav
EqApply ==
    /\ pc = "eq_apply"
    /\ \E ok \in BOOLEAN, left \in BOOLEAN :
         LET eqTempPath == TempPath("tnt_eq_", clock)
             tf == Append(tempFiles, eqTempPath)
             disk == AfterWrite(fs, eqTempPath, ok, left)
         IN  /\ Issue(Inv("eq_apply", workingPath, eqTempPath, ok))
             /\ IF EqRunFailed(ok)
                THEN /\ Fail(<<Line(">", "Applying EQ")>> \o EqApplyFailLines,
                             tf, disk)
                     /\ UNCHANGED workingPath
                ELSE /\ tempFiles' = tf
                     /\ fs' = disk
                     /\ workingPath' = eqTempPath
                     /\ statusLog' = statusLog \o <<Line(">", "Applying EQ"),
                                                    Line("v", "EQ applied")>>
                     /\ pc' = "ds"
                     /\ UNCHANGED result
    /\ clock' = clock + 1
    /\ UNCHANGED <<cfg, ui, inputPath, attenuatedPath, outputPath, measured,
                   dsAnalysis, batchVars, extVars>>

\* line 2128: the path handed to calculateDynamicsScore
ScoredPathWorking(input, working) == working
ScoredPath(input, working) == input

\* lines 2126-2133: the Dynamics Score of the input file
DsScore ==
    /\ pc = "ds"
    /\ IF DynamicsEnabled(cfg)
       THEN \E ok \in BOOLEAN :
              LET ds == calculateDynamicsScore(ok)
                  ln == <<Line(">", "Calculating Dynamics Score")>>
              IN  /\ Issue(Inv("ds_score", ScoredPath(inputPath, workingPath),
                               NoPath, ok))
                  /\ IF ds = "nil"
                     THEN /\ Fail(ln \o DsFailLines, tempFiles, fs)
                          /\ UNCHANGED dsAnalysis
                     ELSE /\ dsAnalysis' = ds
                          /\ statusLog' = statusLog \o ln
                          /\ pc' = "dyn"
                          /\ UNCHANGED <<result, tempFiles, fs>>
       ELSE /\ pc' = "dyn"
            /\ UNCHANGED <<invocations, dsAnalysis, result, statusLog,
                           tempFiles, fs>>
    /\ UNCHANGED <<cfg, ui, inputPath, workingPath, attenuatedPath, outputPath,
                   measured, clock, batchVars, extVars>>

\* Stage 2, lines 2136-2147: analysis for the dynamic normalization
DynAnalysis ==
    /\ pc = "dyn"
    /\ IF DynNormEnabled(cfg)
       THEN \E ok \in BOOLEAN :
              LET dynamicsAnalysis == analyzeDynamics(ok)
                  dynParams == analyzeDynaudnormParams(dynamicsAnalysis)
                  dynaudnormFilter == buildDynaudnormFilter(dynParams)
              IN  /\ Issue(Inv("dyn_analysis", workingPath, NoPath, ok))
                  /\ IF dynamicsAnalysis = "nil"
                     THEN Fail(DynAnalysisFailLines, tempFiles, fs)
                     ELSE /\ pc' = IF dynParams # "nil" /\ dynaudnormFilter # ""
                                   THEN "dyn_apply" ELSE "dynamics"
                          /\ UNCHANGED <<result, statusLog, tempFiles, fs>>
       ELSE /\ pc' = "dynamics"
            /\ UNCHANGED <<invocations, result, statusLog, tempFiles, fs>>
    /\ UNCHANGED <<cfg, ui, inputPath, workingPath, attenuatedPath, outputPath,
                   measured, dsAnalysis, clock, batchVars, extVars>>

\* Stage 2, lines 2148-2169: render into tnt_dyn_<nanos>.wav
DynApply ==
    /\ pc = "dyn_apply"
    /\ \E ok \in BOOLEAN, left \in BOOLEAN :
         LET dynTempPath == TempPath("tnt_dyn_", clock)
             tf == Append(tempFiles, dynTempPath)
             disk == AfterWrite(fs, dynTempPath, ok, left)
             ln == <<Line(">", "Applying dynamic normalization")>>
         IN  /\ Issue(Inv("dyn_apply", workingPath, dynTempPath, ok))
             /\ IF DynRunFailed(ok)
                THEN /\ Fail(ln \o DynApplyFailLines, tf, disk)
                     /\ UNCHANGED workingPath
                ELSE /\ tempFiles' = tf
                     /\ fs' = disk
                     /\ workingPath' = dynTempPath
                     /\ statusLog' = statusLog \o ln \o
                            <<Line("v", "Dynamic normalization applied")>>
                     /\ pc' = "dyn_measure"
                     /\ UNCHANGED result
    /\ clock' = clock + 1
    /\ UNCHANGED <<cfg, ui, inputPath, attenuatedPath, outputPath, measured,
                   dsAnalysis, batchVars, extVars>>

\* if cfg.UseLoudnorm { measured = n.measureLoudness(workingPath); ... }
MeasureLoudnormStep(here, next) ==
    /\ pc = here
    /\ IF cfg.UseLoudnorm
       THEN \E ok \in BOOLEAN, hasJson \in BOOLEAN :
              LET m == measureLoudness(workingPath, ok, hasJson)
                  ln == <<Line(">", "Measuring")>>
              IN  /\ Issue(Inv("measure_loudnorm", workingPath, NoPath, ok))
                  /\ measured' = m
                  /\ IF m.nil
                     THEN Fail(ln \o MeasureFailLines, tempFiles, fs)
                     ELSE /\ statusLog' = statusLog \o ln
                          /\ pc' = next
                          /\ UNCHANGED <<result, tempFiles, fs>>
       ELSE /\ pc' = next
            /\ UNCHANGED <<invocations, measured, result, statusLog,
                           tempFiles, fs>>
    /\ UNCHANGED <<cfg, ui, inputPath, workingPath, attenuatedPath, outputPath,
                   dsAnalysis, clock, batchVars, extVars>>

\* if cfg.writeTags { measured = n.measureLoudnessEbuR128(workingPath); ... }
MeasureTagsStep(here, next) ==
    /\ pc = here
    /\ IF cfg.writeTags
       THEN \E ok \in BOOLEAN, keys \in EbuKeySets :
              LET m == measureLoudnessEbuR128(workingPath, ok, keys)
              IN  /\ Issue(Inv("measure_ebur128", workingPath, NoPath, ok))
                  /\ measured' = m
                  /\ IF m.nil
                     THEN Fail(MeasureFailLines, tempFiles, fs)
                     ELSE /\ statusLog' = statusLog \o EbuValueLines(keys)
                          /\ pc' = next
                          /\ UNCHANGED <<result, tempFiles, fs>>
       ELSE /\ pc' = next
            /\ UNCHANGED <<invocations, measured, result, statusLog,
                           tempFiles, fs>>
    /\ UNCHANGED <<cfg, ui, inputPath, workingPath, attenuatedPath, outputPath,
                   dsAnalysis, clock, batchVars, extVars>>

\* Stage 2, lines 2171-2178 and 2180-2186: measurements inside the stage
DynMeasureLoudnorm == MeasureLoudnormStep("dyn_measure", "dyn_measure_tags")
DynMeasureTags == MeasureTagsStep("dyn_measure_tags", "dynamics")

\* the peak levels (dBFS) the quick peak check is explored with
PeakSamples == {-20, -5, -4}

\* what astats prints: a "Peak level dB" line for Channel 1 first, and the
\* one of the Overall section, the highest of the channels, after it; or
\* no such line.  Lines 2202-2203 take the first match of the output.
PeakOutputs ==
    {out \in [first : PeakSamples, overall : PeakSamples] :
        out.overall >= out.first}
        \cup {[first |-> NoPeak, overall |-> NoPeak]}
HotPeakThreshold == -5
TargetPeak == -6

\* Stage 3, lines 2192-2210: guard of the stage and the quick peak check of
\* the Broadcast preset, whose exit status is dropped (output, _ := ...)
PeakCheck ==
    /\ pc = "dynamics"
    /\ attenuatedPath' = IF DynamicsEnabled(cfg) THEN workingPath
                         ELSE attenuatedPath
    /\ IF DynamicsEnabled(cfg) /\ cfg.DynamicsPreset = "Broadcast"
       THEN \E ok \in BOOLEAN, output \in PeakOutputs :
              LET peakLevel == output.first
              IN  /\ Issue([Inv("peak_check", workingPath, NoPath, ok)
                              EXCEPT !.arg = peakLevel,
                                     !.overall = output.overall])
                  /\ pc' = IF peakLevel # NoPeak
                              /\ peakLevel > HotPeakThreshold
                           THEN "atten" ELSE "bands"
       ELSE /\ pc' = IF DynamicsEnabled(cfg) THEN "sbc" ELSE "measure"
            /\ UNCHANGED invocations
    /\ UNCHANGED <<cfg, ui, inputPath, workingPath, outputPath, tempFiles,
                   measured, dsAnalysis, statusLog, fs, clock, result,
                   batchVars, extVars>>

\* Stage 3, lines 2207-2228: attenuate hot peaks into tnt_atten_<nanos>.wav
Attenuate ==
    /\ pc = "atten"
    /\ \E ok \in BOOLEAN, left \in BOOLEAN :
         LET peakLevel == invocations[Len(invocations)].arg
             inputAttenuationDb == TargetPeak - peakLevel
             attenPath == TempPath("tnt_atten_", clock)
             tf == Append(tempFiles, attenPath)
             disk == AfterWrite(fs, attenPath, ok, left)
         IN  /\ Issue([Inv("atten", workingPath, attenPath, ok)
                         EXCEPT !.arg = inputAttenuationDb])
             /\ attenuatedPath' = attenPath
             /\ IF AttenRunFailed(ok)
                THEN Fail(AttenFailLines, tf, disk)
                ELSE /\ tempFiles' = tf
                     /\ fs' = disk
                     /\ pc' = "bands"
                     /\ UNCHANGED <<result, statusLog>>
    /\ clock' = clock + 1
    /\ UNCHANGED <<cfg, ui, inputPath, workingPath, outputPath, measured,
                   dsAnalysis, batchVars, extVars>>

\* Stage 3, lines 2233-2240: five-band analysis of the Broadcast preset
BandAnalysis ==
    /\ pc = "bands"
    /\ \E failedBands \in FailureSets(MbBands) :
         LET bandAnalysis == analyzeFrequencyBands(failedBands)
             multibandFilter ==
                 buildMultibandCompression(bandAnalysis, cfg.DynamicsPreset)
         IN  /\ Issue([Inv("band_analysis", attenuatedPath, NoPath,
                           failedBands = {})
                         EXCEPT !.failed = Cardinality(failedBands)])
             /\ IF FrequencyBandsFailed(bandAnalysis)
                THEN Fail(BandsFailLines, tempFiles, fs)
                ELSE /\ pc' = IF multibandFilter # "" THEN "comp" ELSE "measure"
                     /\ UNCHANGED <<result, statusLog, tempFiles, fs>>
    /\ UNCHANGED <<cfg, ui, inputPath, workingPath, attenuatedPath, outputPath,
                   measured, dsAnalysis, clock, batchVars, extVars>>

\* Stage 3, lines 2241-2258: whole-file analysis of the other presets
SbcAnalysis ==
    /\ pc = "sbc"
    /\ \E ok \in BOOLEAN :
         LET dynamicsAnalysis == analyzeDynamics(ok)
             dynamicsFilter ==
                 calculateAdaptiveCompression(dynamicsAnalysis,
                                              cfg.DynamicsPreset)
         IN  /\ Issue(Inv("dynamics_analysis", workingPath, NoPath, ok))
             /\ IF dynamicsAnalysis = "nil"
                THEN Fail(SbcFailLines, tempFiles, fs)
                ELSE /\ pc' = IF dynamicsFilter # "" THEN "comp" ELSE "measure"
                     /\ UNCHANGED <<result, statusLog, tempFiles, fs>>
    /\ UNCHANGED <<cfg, ui, inputPath, workingPath, attenuatedPath, outputPath,
                   measured, dsAnalysis, clock, batchVars, extVars>>

\* compressionInput, lines 2273-2277
CompressionInput ==
    IF cfg.DynamicsPreset = "Broadcast" /\ attenuatedPath # workingPath
    THEN attenuatedPath ELSE workingPath

\* Stage 3, lines 2266-2296: render into tnt_comp_<nanos>.wav
CompApply ==
    /\ pc = "comp"
    /\ \E ok \in BOOLEAN, left \in BOOLEAN :
         LET compTempPath == TempPath("tnt_comp_", clock)
             tf == Append(tempFiles, compTempPath)
             disk == AfterWrite(fs, compTempPath, ok, left)
             ln == <<Line(">", "Applying compression")>>
         IN  /\ Issue(Inv("comp_apply", CompressionInput, compTempPath, ok))
             /\ IF CompRunFailed(ok)
                THEN /\ Fail(ln \o CompFailLines, tf, disk)
                     /\ UNCHANGED workingPath
                ELSE /\ tempFiles' = tf
                     /\ fs' = disk
                     /\ workingPath' = compTempPath
                     /\ statusLog' = statusLog \o ln \o
                            <<Line("v", "Compression applied")>>
                     /\ pc' = "measure"
                     /\ UNCHANGED result
    /\ clock' = clock + 1
    /\ UNCHANGED <<cfg, ui, inputPath, attenuatedPath, outputPath, measured,
                   dsAnalysis, batchVars, extVars>>

\* Stage 4, lines 2304-2311 and 2313-2319
MeasureLoudnormSkipped ==
    /\ pc = "measure"
    /\ pc' = "measure_tags"
    /\ UNCHANGED <<cfg, ui, inputPath, workingPath, attenuatedPath, outputPath,
                   tempFiles, measured, dsAnalysis, invocations, statusLog,
                   fs, clock, result, batchVars, extVars>>
MeasureLoudnorm == MeasureLoudnormStep("measure", "measure_tags")
MeasureTags == MeasureTagsStep("measure_tags", "encode")

\* lines 2325-2340: the normalization filter is built iff a measurement exists
UsesLoudnormFilter == cfg.UseLoudnorm /\ ~measured.nil

\* lines 2404-2414: the three REPLAYGAIN_* metadata entries
WritesReplayGain == cfg.writeTags /\ ~measured.nil

\* lines 2381-2395: a missing input_tp is reported and replaced by 1.0
PeakLines ==
    IF ~cfg.writeTags THEN NoLines
    ELSE IF "input_tp" \notin measured.keys
         THEN <<Line("", "ERROR: input_tp is empty")>>
         ELSE <<Line("", "Peak in linear")>>

\* lines 2359-2482: the final encode into outputPath, and the two returns
Encode ==
    /\ pc = "encode"
    /\ \E ok \in BOOLEAN, left \in BOOLEAN :
         LET disk == AfterWrite(fs, outputPath, ok, left)
         IN  /\ Issue([Inv("encode", workingPath, outputPath, ok)
                         EXCEPT !.tags = WritesReplayGain,
                                !.loudnorm = UsesLoudnormFilter,
                                !.copy = args.copy,
                                !.target = IF UsesLoudnormFilter
                                              \/ WritesReplayGain
                                           THEN args.target ELSE ""])
             /\ IF EncodeFailed(ok)
                THEN Fail(PeakLines \o EncodeFailLines, tempFiles, disk)
                ELSE /\ statusLog' = statusLog \o PeakLines \o
                            <<Line("v", "Success"), Line("", ""),
                              Line("", "Your files can be found")>>
                     /\ fs' = AfterReturn(tempFiles, disk)
                     /\ result' = TRUE
                     /\ pc' = "done"
                     /\ UNCHANGED tempFiles
    /\ UNCHANGED <<cfg, ui, inputPath, workingPath, attenuatedPath, outputPath,
                   measured, dsAnalysis, clock, batchVars, extVars>>

----------------------------------------------------------------------------
(* Inputs of a run *)

DefaultUi ==
    [outputDir |-> <<"out">>, batchMode |-> FALSE, inputDir |-> <<>>,
     noTranscode |-> FALSE, normalizationStandard |-> "EBU R128 (-23 LUFS)",
     normalizeTarget |-> ""]
DefaultInput == Path(<<"music">>, <<"a", ".wav">>)

\* every combination of the stage switches, on one input and output folder
StageConfigs ==
    [EqTarget : {"", "Off", "Flat"},
     DynamicsPreset : {"", "Off", "Moderate", "Broadcast"},
     DynNorm : BOOLEAN, bypassProc : BOOLEAN,
     UseLoudnorm : BOOLEAN, writeTags : BOOLEAN,
     noTranscode : {FALSE}, Format : {"PCM"}, PhaseCheck : {FALSE}]

\* every combination of what the output path is computed from, with the EQ
\* stage or no stage at all
PathConfigs ==
    [EqTarget : {"Off", "Flat"}, DynamicsPreset : {"Off"},
     DynNorm : {FALSE}, bypassProc : {FALSE},
     UseLoudnorm : BOOLEAN, writeTags : BOOLEAN,
     noTranscode : BOOLEAN, Format : {"PCM", "MPEG-II L3", ""},
     PhaseCheck : {FALSE}]

PathUis ==
    {[DefaultUi EXCEPT !.outputDir = d] : d \in {<<"music">>, <<"out">>}}
    \cup {[DefaultUi EXCEPT !.outputDir = d, !.batchMode = TRUE,
                            !.inputDir = <<"music">>] :
            d \in {<<"music">>, <<"out">>}}

PathInputs ==
    {Path(<<"music">>, <<"a", ".wav">>),
     Path(<<"music">>, <<"a", ".tagged", ".wav">>),
     Path(<<"music", "sub">>, <<"a", ".mp3">>)}

RunInputs ==
    (StageConfigs \X {DefaultUi} \X {DefaultInput})
    \cup {in \in PathConfigs \X PathUis \X PathInputs :
            in[2].batchMode => IsPrefix(in[2].inputDir, in[3].dir)}

\* the settings a user can leave the window in after a job was submitted
LiveUis ==
    {DefaultUi,
     [DefaultUi EXCEPT !.noTranscode = TRUE],
     [DefaultUi EXCEPT !.normalizationStandard = "USA ATSC A/85 (-24 LUFS)"],
     [DefaultUi EXCEPT !.normalizationStandard = "Custom",
                       !.normalizeTarget = "16"],
     [DefaultUi EXCEPT !.outputDir = <<"music">>]}

\* jobs with every stage requested, submitted with the default settings:
\* single-band compression with normalization, multiband with tags
LiveConfigs ==
    {c \in StageConfigs :
        /\ c.EqTarget = "Flat" /\ c.DynNorm /\ ~c.bypassProc
        /\ \/ c.DynamicsPreset = "Moderate" /\ c.UseLoudnorm /\ ~c.writeTags
           \/ c.DynamicsPreset = "Broadcast" /\ ~c.UseLoudnorm /\ c.writeTags}

LiveInputs == LiveConfigs \X {DefaultUi} \X {DefaultInput}

\* processFile is called with a job drawn from inputs
RunStart(inputs) ==
    /\ \E in \in inputs :
         /\ cfg = in[1]
         /\ ui = in[2]
         /\ inputPath = in[3]
         /\ fs = {in[3]}
    /\ pc = "start"
    /\ workingPath = NoPath
    /\ attenuatedPath = NoPath
    /\ outputPath = NoPath
    /\ tempFiles = <<>>
    /\ measured = NilMeasured
    /\ dsAnalysis = "nil"
    /\ invocations = <<>>
    /\ statusLog = <<>>
    /\ clock = 1
    /\ result = FALSE
    /\ args = NoArgs
    /\ submitted = ui

RunInit == RunStart(RunInputs)

\* the user changes a setting of the window while a submitted job waits for
\* its run, or while the run is at its final encode
UiChange ==
    /\ pc \in {"start", "encode"}
    /\ \E u \in LiveUis : u # ui /\ ui' = u
    /\ UNCHANGED <<cfg, inputPath, pc, workingPath, attenuatedPath, outputPath,
                   tempFiles, measured, dsAnalysis, invocations, statusLog, fs,
                   clock, result, batchVars, extVars>>

\* no run: the batch specification abstracts processFile to its result
RunIdle ==
    /\ cfg \in [PhaseCheck : BOOLEAN]
    /\ ui = DefaultUi
    /\ inputPath = NoPath
    /\ fs = {}
    /\ pc = "idle"
    /\ workingPath = NoPath
    /\ attenuatedPath = NoPath
    /\ outputPath = NoPath
    /\ tempFiles = <<>>
    /\ measured = NilMeasured
    /\ dsAnalysis = "nil"
    /\ invocations = <<>>
    /\ statusLog = <<>>
    /\ clock = 1
    /\ result = FALSE
    /\ args = NoArgs
    /\ submitted = ui

----------------------------------------------------------------------------
(* process(): the batch goroutine, its workers, the closer, the collector. *)
(* The status lines of these goroutines are not part of the state.         *)

\* workers := runtime.NumCPU() - 1; workers = max(1, workers)
WorkerCount(numCPU) == IF numCPU - 1 > 1 THEN numCPU - 1 ELSE 1

Workers == DOMAIN worker
FileIds == 1..Len(files)

IdleWorker == [pc |-> "recv", file |-> 0, shouldProcess |-> TRUE]

BatchIdle ==
    /\ files = <<>>
    /\ jobs = <<>>
    /\ jobsClosed = FALSE
    /\ nextFile = 1
    /\ results = <<>>
    /\ resultsClosed = FALSE
    /\ worker = <<>>
    /\ wg = 0
    /\ processed = 0
    /\ successful = 0
    /\ handled = <<>>
    /\ produced = <<>>
    /\ bpc = "idle"

\* the state when process() is called: the button is enabled only with at
\* least one file, and addFile keeps n.files free of duplicates
BatchInit ==
    /\ \E n \in 1..MaxFiles :
         /\ files = [i \in 1..n |-> i]
         /\ handled = [i \in 1..n |-> 0]
         /\ produced = [i \in 1..n |-> <<>>]
    /\ jobs = <<>>
    /\ jobsClosed = FALSE
    /\ nextFile = 1
    /\ results = <<>>
    /\ resultsClosed = FALSE
    /\ worker = <<>>
    /\ wg = 0
    /\ processed = 0
    /\ successful = 0
    /\ bpc = "start"

\* lines 1781-1808: the workers are started, wg.Add(1) for each
SpawnWorkers ==
    /\ bpc = "start"
    /\ \E numCPU \in 1..MaxCPU :
         /\ worker' = [w \in 1..WorkerCount(numCPU) |-> IdleWorker]
         /\ wg' = WorkerCount(numCPU)
    /\ bpc' = "enqueue"
    /\ UNCHANGED <<files, jobs, jobsClosed, nextFile, results, resultsClosed,
                   processed, successful, handled, produced, runVars, extVars>>

\* lines 1842-1844: jobs <- file (the buffer holds all files: never blocks)
Enqueue ==
    /\ bpc = "enqueue"
    /\ nextFile <= Len(files)
    /\ jobs' = Append(jobs, files[nextFile])
    /\ nextFile' = nextFile + 1
    /\ UNCHANGED <<files, jobsClosed, results, resultsClosed, worker, wg,
                   processed, successful, handled, produced, bpc,
                   runVars, extVars>>

\* close(ch) of a channel (lines 1845 and 1849)
LeaveOpen(closed) == closed
CloseChan(closed) == TRUE

\* line 1845: close(jobs), and the closer goroutine is started
CloseJobs ==
    /\ bpc = "enqueue"
    /\ nextFile > Len(files)
    /\ jobsClosed' = CloseChan(jobsClosed)
    /\ bpc' = "collect"
    /\ UNCHANGED <<files, jobs, nextFile, results, resultsClosed, worker, wg,
                   processed, successful, handled, produced,
                   runVars, extVars>>

\* line 1809: for file := range jobs, a file is received
WorkerReceive(w) ==
    /\ worker[w].pc = "recv"
    /\ jobs # <<>>
    /\ worker' = [worker EXCEPT ![w] = [pc |-> "phase", file |-> Head(jobs),
                                        shouldProcess |-> TRUE]]
    /\ jobs' = Tail(jobs)
    /\ handled' = [handled EXCEPT ![Head(jobs)] = @ + 1]
    /\ UNCHANGED <<files, jobsClosed, nextFile, results, resultsClosed, wg,
                   processed, successful, produced, bpc, runVars, extVars>>

\* line 1809 and 1808: the range ends on the closed, drained channel and
\* the deferred wg.Done() runs
WorkerExit(w) ==
    /\ worker[w].pc = "recv"
    /\ jobs = <<>>
    /\ jobsClosed
    /\ worker' = [worker EXCEPT ![w].pc = "exited"]
    /\ wg' = wg - 1
    /\ UNCHANGED <<files, jobs, jobsClosed, nextFile, results, resultsClosed,
                   processed, successful, handled, produced, bpc,
                   runVars, extVars>>

\* lines 1812-1829: the optional phase check and its confirmation dialog
PhaseOutcomes == {"error", "in_phase", "inverted", "inverted_zero_offset"}

WorkerPhaseCheck(w) ==
    /\ worker[w].pc = "phase"
    /\ IF cfg.PhaseCheck
       THEN \E outcome \in PhaseOutcomes, answer \in BOOLEAN :
              /\ worker' = [worker EXCEPT
                    ![w].pc = "call",
                    ![w].shouldProcess =
                        IF outcome \in {"inverted", "inverted_zero_offset"}
                        THEN answer ELSE TRUE]
       ELSE worker' = [worker EXCEPT ![w].pc = "call"]
    /\ UNCHANGED <<files, jobs, jobsClosed, nextFile, results, resultsClosed,
                   wg, processed, successful, handled, produced, bpc, runVars, extVars>>

\* results <- false of the skipped file (line 1836)
SkipNoSend(res) == res
SkipSend(res) == Append(res, FALSE)

\* lines 1831-1837: a skipped file is reported and answered with false; a
\* file to process enters processFile
WorkerCall(w) ==
    /\ worker[w].pc = "call"
    /\ IF worker[w].shouldProcess
       THEN /\ worker' = [worker EXCEPT ![w].pc = "running"]
            /\ UNCHANGED <<results, produced>>
       ELSE /\ results' = SkipSend(results)
            /\ produced' = [produced EXCEPT ![worker[w].file] =
                              IF results' = results THEN @
                              ELSE Append(@, "skipped")]
            /\ worker' = [worker EXCEPT ![w].pc = "recv"]
    /\ UNCHANGED <<files, jobs, jobsClosed, nextFile, resultsClosed, wg,
                   processed, successful, handled, bpc, runVars, extVars>>

\* lines 1832-1833: processFile returns and its result is sent
WorkerReturn(w) ==
    /\ worker[w].pc = "running"
    /\ \E success \in BOOLEAN :
         /\ results' = Append(results, success)
         /\ produced' = [produced EXCEPT ![worker[w].file] =
                           Append(@, IF success THEN "success" ELSE "failure")]
    /\ worker' = [worker EXCEPT ![w].pc = "recv"]
    /\ UNCHANGED <<files, jobs, jobsClosed, nextFile, resultsClosed, wg,
                   processed, successful, handled, bpc, runVars, extVars>>

\* lines 1847-1850: wg.Wait(); close(results)
CloseResults ==
    /\ bpc \in {"collect", "done"}
    /\ ~resultsClosed
    /\ wg = 0
    /\ resultsClosed' = CloseChan(resultsClosed)
    /\ UNCHANGED <<files, jobs, jobsClosed, nextFile, results, worker, wg,
                   processed, successful, handled, produced, bpc,
                   runVars, extVars>>

\* lines 1854-1863: for success := range results
Collect ==
    /\ bpc = "collect"
    /\ results # <<>>
    /\ processed' = processed + 1
    /\ successful' = IF Head(results) THEN successful + 1 ELSE successful
    /\ results' = Tail(results)
    /\ UNCHANGED <<files, jobs, jobsClosed, nextFile, resultsClosed, worker,
                   wg, handled, produced, bpc, runVars, extVars>>

\* lines 1865-1868: the range ends, "Complete: ..." is logged
Complete ==
    /\ bpc = "collect"
    /\ results = <<>>
    /\ resultsClosed
    /\ bpc' = "done"
    /\ UNCHANGED <<files, jobs, jobsClosed, nextFile, results, resultsClosed,
                   worker, wg, processed, successful, handled, produced,
                   runVars, extVars>>

----------------------------------------------------------------------------
(* Concurrent runs of processFile (workers of one batch, or a batch worker *)
(* and the watch queue), reduced to the temp artifacts they create in the  *)
(* shared temp directory and remove when they return.                      *)

\* the stages that render into a temp artifact, in the order of processFile
TempStages == <<"eq", "dyn", "atten", "comp">>

TempPrefix(stage) ==
    CASE stage = "eq" -> "tnt_eq_"
      [] stage = "dyn" -> "tnt_dyn_"
      [] stage = "atten" -> "tnt_atten_"
      [] stage = "comp" -> "tnt_comp_"

RunIds == 1..MaxRuns

ConcIdle ==
    /\ runs = <<>>
    /\ nanoTime = 1
    /\ tempDir = {}


\* each run renders the stages its configuration and its input call for
ConcInit ==
    /\ runs \in [RunIds -> [at : {1}, tempFiles : {<<>>},
                            stages : SUBSET Range(TempStages)]]
    /\ nanoTime = 1
    /\ tempDir = {}

\* time passes between two readings of the clock
Tick ==
    /\ nanoTime < MaxTicks
    /\ nanoTime' = nanoTime + 1
    /\ UNCHANGED <<runs, tempDir, runVars, batchVars, watchVars, liveVars, pureVars>>

\* lines 2086-2087, 2148-2149, 2211-2212, 2268-2269 and the render that
\* follows: the temp path is named after the clock, appended to tempFiles
\* and written by the engine (-y overwrites an existing file)
RenderTemp(r) ==
    /\ runs[r].at <= Len(TempStages)
    /\ LET stage == TempStages[runs[r].at]
           path == TempPath(TempPrefix(stage), nanoTime)
       IN  IF stage \in runs[r].stages
           THEN /\ runs' = [runs EXCEPT ![r].at = @ + 1,
                                        ![r].tempFiles = Append(@, path)]
                /\ tempDir' = tempDir \cup {path}
           ELSE /\ runs' = [runs EXCEPT ![r].at = @ + 1]
                /\ UNCHANGED tempDir
    /\ UNCHANGED <<nanoTime, runVars, batchVars, watchVars, liveVars, pureVars>>

\* line 1878: the run returns and its deferred cleanup removes its tempFiles
ReturnRun(r) ==
    /\ runs[r].at = Len(TempStages) + 1
    /\ runs' = [runs EXCEPT ![r].at = @ + 1]
    /\ tempDir' = cleanupTempFiles(runs[r].tempFiles, tempDir)
    /\ UNCHANGED <<nanoTime, runVars, batchVars, watchVars, liveVars, pureVars>>

----------------------------------------------------------------------------
(* Watch mode: watchDirectory feeds n.jobQueue, processWatchQueue runs one *)
(* file at a time, stopWatching closes n.watcherStop and drains the queue. *)

JobQueueCap == 100

\* the widgets getProcessConfig reads, reduced to one check box
WidgetStates == [loudnormCheck : BOOLEAN]

getProcessConfig(w) == [UseLoudnorm |-> w.loudnormCheck]

\* a goroutine that has returned, and no goroutine of an earlier start left
Exited == [pc |-> "exited", file |-> 0]
NoGoroutines == [wd |-> Exited, wq |-> Exited]

WatchIdle ==
    /\ widgets = [loudnormCheck |-> FALSE]
    /\ watching = FALSE
    /\ stopClosed = FALSE
    /\ jobQueue = <<>>
    /\ nextEvent = 1
    /\ wd = [pc |-> "exited", file |-> 0]
    /\ wq = [pc |-> "exited", file |-> 0]
    /\ sw = "idle"
    /\ detected = <<>>
    /\ started = <<>>
    /\ prev = NoGoroutines

NoResult == [applied |-> FALSE]
Result(v) == [applied |-> TRUE, value |-> v]

PureIdle == fnIn = [fn |-> "none"] /\ fnOut = NoResult

ExtIdle == ConcIdle /\ WatchIdle /\ PureIdle

\* lines 1399-1414: the state startWatching leaves, both goroutines started
WatchInit ==
    /\ widgets \in WidgetStates
    /\ watching = TRUE
    /\ stopClosed = FALSE
    /\ jobQueue = <<>>
    /\ nextEvent = 1
    /\ wd = [pc |-> "select", file |-> 0]
    /\ wq = [pc |-> "select", file |-> 0]
    /\ sw = "idle"
    /\ detected = <<>>
    /\ started = <<>>
    /\ prev = NoGoroutines

\* the user changes a setting
ChangeSettings ==
    /\ \E w \in WidgetStates : w # widgets /\ widgets' = w
    /\ UNCHANGED <<watching, stopClosed, jobQueue, nextEvent, wd, wq, sw,
                   detected, started, prev, runVars, batchVars, concVars, liveVars,
                   pureVars>>

\* lines 1447-1449: case event := <-watcher.Events, a created audio file
WatcherEvent ==
    /\ wd.pc = "select"
    /\ nextEvent <= MaxEvents
    /\ wd' = [pc |-> "send", file |-> nextEvent]
    /\ nextEvent' = nextEvent + 1
    /\ UNCHANGED <<widgets, watching, stopClosed, jobQueue, wq, sw, detected,
                   started, prev, runVars, batchVars, concVars, liveVars,
                   pureVars>>

\* line 1451: case n.jobQueue <- event.Name
WatcherSend ==
    /\ wd.pc = "send"
    /\ Len(jobQueue) < JobQueueCap
    /\ jobQueue' = Append(jobQueue, wd.file)
    /\ detected' = Append(detected, getProcessConfig(widgets))
    /\ wd' = [pc |-> "select", file |-> 0]
    /\ UNCHANGED <<widgets, watching, stopClosed, nextEvent, wq, sw, started,
                   prev, runVars, batchVars, concVars, liveVars,
                   pureVars>>

\* lines 1452-1453 and 1456-1457: case <-n.watcherStop: return
WatcherExit ==
    /\ wd.pc \in {"select", "send"}
    /\ stopClosed
    /\ wd' = [pc |-> "exited", file |-> 0]
    /\ UNCHANGED <<widgets, watching, stopClosed, jobQueue, nextEvent, wq, sw,
                   detected, started, prev, runVars, batchVars, concVars, liveVars,
                   pureVars>>

\* lines 1469-1470: case file := <-n.jobQueue, and processFile is called
\* with n.getProcessConfig()
WatchDequeue ==
    /\ wq.pc = "select"
    /\ jobQueue # <<>>
    /\ wq' = [pc |-> "running", file |-> Head(jobQueue)]
    /\ jobQueue' = Tail(jobQueue)
    /\ started' = Append(started, [file |-> Head(jobQueue),
                                   config |-> getProcessConfig(widgets),
                                   afterStop |-> stopClosed])
    /\ UNCHANGED <<widgets, watching, stopClosed, nextEvent, wd, sw, detected,
                   prev, runVars, batchVars, concVars, liveVars,
                   pureVars>>

\* line 1470: processFile returns, back to the select
WatchRunReturn ==
    /\ wq.pc = "running"
    /\ wq' = [pc |-> "select", file |-> 0]
    /\ UNCHANGED <<widgets, watching, stopClosed, jobQueue, nextEvent, wd, sw,
                   detected, started, prev, runVars, batchVars, concVars, liveVars,
                   pureVars>>

\* lines 1471-1472: case <-n.watcherStop: return
WatchQueueExit ==
    /\ wq.pc = "select"
    /\ stopClosed
    /\ wq' = [pc |-> "exited", file |-> 0]
    /\ UNCHANGED <<widgets, watching, stopClosed, jobQueue, nextEvent, wd, sw,
                   detected, started, prev, runVars, batchVars, concVars, liveVars,
                   pureVars>>

\* lines 1416-1422: stopWatching clears n.watching and closes the signal
StopWatching ==
    /\ sw = "idle"
    /\ watching
    /\ watching' = FALSE
    /\ stopClosed' = CloseChan(stopClosed)
    /\ sw' = "drain"
    /\ UNCHANGED <<widgets, jobQueue, nextEvent, wd, wq, detected, started,
                   prev, runVars, batchVars, concVars, liveVars,
                   pureVars>>

\* line 1423: for len(n.jobQueue) > 0
DrainCheck ==
    /\ sw = "drain"
    /\ sw' = IF Len(jobQueue) > 0 THEN "recv" ELSE "done"
    /\ UNCHANGED <<widgets, watching, stopClosed, jobQueue, nextEvent, wd, wq,
                   detected, started, prev, runVars, batchVars, concVars, liveVars,
                   pureVars>>

\* line 1424: <-n.jobQueue (blocks while the queue is empty)
DrainRecv ==
    /\ sw = "recv"
    /\ jobQueue # <<>>
    /\ jobQueue' = Tail(jobQueue)
    /\ sw' = "drain"
    /\ UNCHANGED <<widgets, watching, stopClosed, nextEvent, wd, wq, detected,
                   started, prev, runVars, batchVars, concVars, liveVars,
                   pureVars>>

\* lines 1399-1414: startWatching after a stop.  It takes watcherMutex, so
\* stopWatching has returned; it replaces n.watcherStop and n.jobQueue by
\* new channels and starts two new goroutines.  The goroutines of the start
\* before are not waited for: one blocked in a select keeps the channels it
\* evaluated there (the closed signal, the old queue) and is "stale"; a
\* processWatchQueue inside processFile is left running.
StaleIfBlocked(g) ==
    IF g.pc \in {"select", "send"} THEN [pc |-> "stale", file |-> 0] ELSE g

StartWatching ==
    /\ sw = "done"
    /\ ~watching
    /\ prev = NoGoroutines
    /\ watching' = TRUE
    /\ stopClosed' = FALSE
    /\ jobQueue' = <<>>
    /\ sw' = "idle"
    /\ prev' = [wd |-> StaleIfBlocked(wd), wq |-> StaleIfBlocked(wq)]
    /\ wd' = [pc |-> "select", file |-> 0]
    /\ wq' = [pc |-> "select", file |-> 0]
    /\ UNCHANGED <<widgets, nextEvent, detected, started, runVars, batchVars,
                   concVars, liveVars, pureVars>>

\* lines 1452-1453 and 1456-1457 in the earlier watchDirectory: its signal
\* is closed
PrevWatcherExit ==
    /\ prev.wd.pc = "stale"
    /\ prev' = [prev EXCEPT !.wd = Exited]
    /\ UNCHANGED <<widgets, watching, stopClosed, jobQueue, nextEvent, wd, wq,
                   sw, detected, started, runVars, batchVars, concVars,
                   liveVars, pureVars>>

\* lines 1467-1470 in the earlier processWatchQueue: processFile returns and
\* the select is entered again, with n.jobQueue and n.watcherStop read from
\* the struct at that moment.  The read is not ordered with the assignments
\* in startWatching: it yields the new channels or the ones before.
PrevRunReturn ==
    /\ prev.wq.pc = "running"
    /\ \E seen \in {"select", "stale"} :
           prev' = [prev EXCEPT !.wq = [pc |-> seen, file |-> 0]]
    /\ UNCHANGED <<widgets, watching, stopClosed, jobQueue, nextEvent, wd, wq,
                   sw, detected, started, runVars, batchVars, concVars,
                   liveVars, pureVars>>

\* lines 1469-1470 in the earlier processWatchQueue, on the present queue
PrevDequeue ==
    /\ prev.wq.pc = "select"
    /\ jobQueue # <<>>
    /\ prev' = [prev EXCEPT !.wq = [pc |-> "running", file |-> Head(jobQueue)]]
    /\ jobQueue' = Tail(jobQueue)
    /\ started' = Append(started, [file |-> Head(jobQueue),
                                   config |-> getProcessConfig(widgets),
                                   afterStop |-> stopClosed])
    /\ UNCHANGED <<widgets, watching, stopClosed, nextEvent, wd, wq, sw,
                   detected, runVars, batchVars, concVars, liveVars, pureVars>>

\* lines 1471-1472 in the earlier processWatchQueue
PrevQueueExit ==
    /\ \/ prev.wq.pc = "stale"
       \/ prev.wq.pc = "select" /\ stopClosed
    /\ prev' = [prev EXCEPT !.wq = Exited]
    /\ UNCHANGED <<widgets, watching, stopClosed, jobQueue, nextEvent, wd, wq,
                   sw, detected, started, runVars, batchVars, concVars,
                   liveVars, pureVars>>

----------------------------------------------------------------------------
(* Numeric helpers.  Floating-point values are exact rationals <<n, d>>    *)
(* with d > 0; a Dynamics Score is given in hundredths.                    *)

Rat(n, d) == <<n, d>>
RatOf(i) == <<i, 1>>
RatEq(a, b) == a[1] * b[2] = b[1] * a[2]
RatLess(a, b) == a[1] * b[2] < b[1] * a[2]
RatLeq(a, b) == a[1] * b[2] <= b[1] * a[2]
RatInv(a) == IF a[1] > 0 THEN <<a[2], a[1]>> ELSE <<-a[2], -a[1]>>
RatSub(a, b) == <<a[1] * b[2] - b[1] * a[2], a[2] * b[2]>>
RatAbs(a) == <<IF a[1] < 0 THEN -a[1] ELSE a[1], a[2]>>

Min(a, b) == IF a < b THEN a ELSE b
Max(a, b) == IF a > b THEN a ELSE b

\* compression.go lines 13, 19 and 25: the tests that select the branch
VeryCompressedBranch(ds) == ds < 900
ModerateBranchEarly(ds) == ds < 1400
ModerateBranch(ds) == ds < 1500
NormalBranchStrict(ds) == ds < 2100
NormalBranch(ds) == ds <= 2100

\* compression.go lines 6-41
GetCompressionModifiers(ds) ==
    IF VeryCompressedBranch(ds)
    THEN [AttackMultiplier |-> RatOf(4), ReleaseMultiplier |-> RatOf(4),
          RatioMultiplier |-> Rat(15, 100)]
    ELSE IF ModerateBranch(ds)
    THEN [AttackMultiplier |-> RatOf(2), ReleaseMultiplier |-> RatOf(2),
          RatioMultiplier |-> Rat(21, 10)]
    ELSE IF NormalBranch(ds)
    THEN [AttackMultiplier |-> RatOf(1), ReleaseMultiplier |-> RatOf(1),
          RatioMultiplier |-> RatOf(1)]
    ELSE LET excess == Min(ds - 2100, 7900)
             scaleFactor == Rat(2 * 7900 + 2 * excess, 7900)
         IN  [AttackMultiplier |-> RatInv(scaleFactor),
              ReleaseMultiplier |-> RatInv(scaleFactor),
              RatioMultiplier |-> Rat(4 * 7900 + 4 * excess, 7900)]

----------------------------------------------------------------------------
(* The compressor builders.  Levels are in hundredths of a dB, ratios and  *)
(* crest factors in hundredths, times in hundredths of a millisecond and   *)
(* linear amplitudes in millionths; a product or quotient is carried to    *)
(* that precision.  The statistics are finite numbers.                     *)

\* x * r for a rational r, rounded down
Scale(x, r) == (x * r[1]) \div r[2]

\* fmt.Sprintf("%.Nf"): x / m rounded to the nearest integer, ties to even
RoundDiv(x, m) ==
    LET q == x \div m
        rem == x % m
    IN  IF 2 * rem > m THEN q + 1
        ELSE IF 2 * rem = m THEN q + (q % 2)
        ELSE q

\* 10^(-r/20) for r = 0..19 dB, in millionths
AttenuationTable ==
    <<1000000, 891251, 794328, 707946, 630957, 562341, 501187, 446684,
      398107, 354813, 316228, 281838, 251189, 223872, 199526, 177828,
      158489, 141254, 125893, 112202>>

\* amplitudes from 1000 up (60 dB) are all above every limit they are
\* compared with and are carried as 1000
LinCeiling == 1000000000

RECURSIVE PowerOfTen(_)
PowerOfTen(k) == IF k = 0 THEN 1 ELSE 10 * PowerOfTen(k - 1)

\* 10^(d/20) for a whole number of dB
WholeDbToLinear(d) ==
    LET r == (-d) % 20
        q == (d + r) \div 20
    IN  IF q >= 3 THEN LinCeiling
        ELSE IF q >= 0 THEN AttenuationTable[r + 1] * PowerOfTen(q)
        ELSE IF q < -6 THEN 0
        ELSE AttenuationTable[r + 1] \div PowerOfTen(-q)

\* math.Pow(10, db/20): the table, interpolated inside one dB
DbToLinear(db) ==
    LET whole == db \div 100
        frac == db % 100
        a == WholeDbToLinear(whole)
        b == WholeDbToLinear(whole + 1)
    IN  IF b >= LinCeiling THEN LinCeiling
        ELSE a + ((b - a) * frac) \div 100

\* compression.go lines 44-57
GetBaseRatioFromCrestStrict(crest) ==
    IF crest < 300 THEN 140
    ELSE IF crest < 500 THEN 200
    ELSE IF crest < 800 THEN 400
    ELSE IF crest >= 1600 THEN 800
    ELSE 400 + (400 * (crest - 800)) \div 800

GetBaseRatioFromCrest(crest) ==
    IF crest <= 300 THEN 140
    ELSE IF crest <= 500 THEN 200
    ELSE IF crest <= 800 THEN 400
    ELSE IF crest >= 1600 THEN 800
    ELSE 400 + (400 * (crest - 800)) \div 800

\* part_007 lines 1139-1175
calculateMakeupGain(analysis, threshold, ratio) ==
    LET rmsPeak == analysis.RMSPeak
        rmsLevel == analysis.RMSLevel
    IN  IF threshold >= rmsPeak THEN 1000000
        ELSE
        LET avgExcursion == (rmsPeak - threshold) \div 2
            gainReductionPerSample == (avgExcursion * (ratio - 100)) \div ratio
            effectiveGainReduction ==
                IF threshold <= rmsLevel
                THEN (gainReductionPerSample * 7) \div 10
                ELSE (gainReductionPerSample * 3 * (rmsPeak - threshold))
                         \div (10 * (rmsPeak - rmsLevel))
            makeupGainDB == (effectiveGainReduction * 85) \div 100
            makeupGainLinear == DbToLinear(makeupGainDB)
        IN  IF makeupGainLinear < 1000000 THEN 1000000
            ELSE IF makeupGainLinear > 64000000 THEN 64000000
            ELSE makeupGainLinear

\* part_007 lines 1064-1066, 851-853 and 1091-1097, 859-869: the lower
\* limits of the threshold and of the times
ThresholdFloorLoose(x) == IF x < 0 THEN 0 ELSE x
ThresholdFloor(x) == IF x < 990 THEN 990 ELSE x
TimeFloor(x) == IF x < 1 THEN 1 ELSE x

\* part_007 lines 1058-1081 and 828-844: the knee of a ratio
KneeOf(ratio) ==
    IF ratio < 100 THEN 10
    ELSE IF ratio < 200 THEN 20
    ELSE IF ratio < 400 THEN 30
    ELSE IF ratio < 800 THEN 40
    ELSE IF ratio < 1200 THEN 60
    ELSE IF ratio > 1200 THEN 75
    ELSE 40

Presets == {"Light", "Moderate", "Broadcast"}

UnitModifiers ==
    [AttackMultiplier |-> RatOf(1), ReleaseMultiplier |-> RatOf(1),
     RatioMultiplier |-> RatOf(1)]

\* part_007 lines 1007-1119: the acompressor of the single-band engine, as
\* its text gives it: threshold in millionths (%.6f), ratio and makeup in
\* tenths (%.1f), attack and release in whole milliseconds (%.0f)
SingleBandCompressor(analysis, ds, preset) ==
    LET threshold0 ==
            CASE preset = "Light" -> analysis.RMSLevel + 600
              [] preset = "Moderate" -> analysis.RMSLevel + 500
              [] preset = "Broadcast" -> analysis.RMSLevel + 400
              [] OTHER -> 0
        base == IF preset \in Presets
                THEN GetBaseRatioFromCrest(analysis.CrestFactor) ELSE 0
        attack0 == CASE preset = "Light" -> 10000 [] preset = "Moderate" -> 4000
                     [] preset = "Broadcast" -> 1000 [] OTHER -> 0
        release0 == CASE preset = "Light" -> 25000
                      [] preset = "Moderate" -> 15000
                      [] preset = "Broadcast" -> 3000 [] OTHER -> 0
        mods == IF ds.nil THEN UnitModifiers
                ELSE GetCompressionModifiers(ds.DynamicsScore)
        attack1 == Scale(attack0, mods.AttackMultiplier)
        release1 == Scale(release0, mods.ReleaseMultiplier)
        ratio1 == Scale(base, mods.RatioMultiplier)
        makeup1 == calculateMakeupGain(analysis, threshold0, ratio1)
        lin == DbToLinear(threshold0)
        thresholdLin == ThresholdFloor(IF lin > 1000000 THEN 1000000 ELSE lin)
        ratio2 == IF ratio1 < 100 THEN 100 ELSE ratio1
        ratio == IF ratio2 > 2000 THEN 2000 ELSE ratio2
        attack == TimeFloor(IF attack1 > 200000 THEN 200000 ELSE attack1)
        release == IF TimeFloor(release1) > 900000 THEN 900000
                   ELSE TimeFloor(release1)
        makeupGain == IF makeup1 < 1000000 THEN 1000000
                      ELSE IF makeup1 > 64000000 THEN 64000000 ELSE makeup1
    IN  [threshold |-> thresholdLin,
         ratio |-> RoundDiv(ratio, 10),
         attack |-> RoundDiv(attack, 100),
         release |-> RoundDiv(release, 100),
         knee |-> KneeOf(ratio1),
         makeup |-> RoundDiv(makeupGain, 100000),
         \* lines 1014, 1126-1132: needsLimiting and the alimiter's limit for
         \* the ceiling of -1 dB
         limiter |-> analysis.CrestFactor > 500,
         limit |-> Min(DbToLinear(-100), 1000000)]

\* part_007 lines 697-719: the arguments buildMultibandCompression gives
\* buildBandAcompressor for band 1 (sub) to 5 (high)
BandArguments(preset, index) ==
    LET attackMs == CASE preset = "Light" -> 15000
                      [] preset = "Moderate" -> 10000
                      [] preset = "Broadcast" -> 1000 [] OTHER -> 0
        releaseMs == CASE preset = "Light" -> 30000
                       [] preset = "Moderate" -> 20000
                       [] preset = "Broadcast" -> 2000 [] OTHER -> 0
        baseRatio == CASE preset = "Light" -> 250 [] preset = "Moderate" -> 400
                       [] preset = "Broadcast" -> 600 [] OTHER -> 0
    IN  CASE index = 1 -> [attackMs |-> attackMs, releaseMs |-> releaseMs,
                           ratio |-> baseRatio, fallbackThresholdDb |-> -1800]
          [] index = 2 -> [attackMs |-> attackMs, releaseMs |-> releaseMs,
                           ratio |-> baseRatio, fallbackThresholdDb |-> -1500]
          [] index = 3 -> [attackMs |-> Scale(attackMs, Rat(8, 10)),
                           releaseMs |-> Scale(releaseMs, Rat(9, 10)),
                           ratio |-> Scale(baseRatio, Rat(12, 10)),
                           fallbackThresholdDb |-> -1200]
          [] index = 4 -> [attackMs |-> Scale(attackMs, Rat(6, 10)),
                           releaseMs |-> Scale(releaseMs, Rat(7, 10)),
                           ratio |-> Scale(baseRatio, Rat(15, 10)),
                           fallbackThresholdDb |-> -1000]
          [] index = 5 -> [attackMs |-> Scale(attackMs, Rat(5, 10)),
                           releaseMs |-> Scale(releaseMs, Rat(6, 10)),
                           ratio |-> Scale(baseRatio, RatOf(2)),
                           fallbackThresholdDb |-> -800]

\* part_007 lines 746-906: the acompressor of one band, as its text gives
\* it: threshold in millionths (%.6f), ratio in tenths (%.1f), attack and
\* release in tenths of a millisecond (%.1f), makeup the literal 1.0; the
\* makeup gain goes to the volume filter, in thousandths (%.3f)
buildBandAcompressor(band, a, mods) ==
    IF band.nil
    THEN [threshold |-> DbToLinear(a.fallbackThresholdDb),
          ratio |-> RoundDiv(a.ratio, 10),
          attack |-> RoundDiv(a.attackMs, 10),
          release |-> RoundDiv(a.releaseMs, 10),
          makeup |-> 10,
          volume |-> RoundDiv(DbToLinear(300), 1000),
          limit |-> Min(DbToLinear(-100), 1000000),
          limiterAttack |-> 5,
          limiterRelease |-> 50]
    ELSE
    LET veryCompressed == RatLess(mods.RatioMultiplier, Rat(3, 10))
        adaptiveThresholdDb ==
            IF veryCompressed THEN band.PeakLevel - 100
            ELSE band.RMSLevel +
                 (IF RatLess(RatOf(3), mods.RatioMultiplier) THEN 300 ELSE 600)
        expectedGRDb == ((band.RMSLevel - adaptiveThresholdDb) * 100)
                            \div a.ratio
        makeupGainDb ==
            IF veryCompressed THEN 0
            ELSE Max(0, ((0 - expectedGRDb) * 8) \div 10)
        makeup1 == DbToLinear(makeupGainDb)
        attack1 == Scale(a.attackMs, mods.AttackMultiplier)
        release1 == Scale(a.releaseMs, mods.ReleaseMultiplier)
        ratio1 == Scale(a.ratio, mods.RatioMultiplier)
        ratio2 == IF ratio1 < 100 THEN 100 ELSE ratio1
        ratio == IF ratio2 > 2000 THEN 2000 ELSE ratio2
        lin == ThresholdFloor(DbToLinear(adaptiveThresholdDb))
        thresholdLin == IF lin > 1000000 THEN 1000000 ELSE lin
        attackMs == IF TimeFloor(attack1) > 200000 THEN 200000
                    ELSE TimeFloor(attack1)
        releaseMs == IF TimeFloor(release1) > 900000 THEN 900000
                     ELSE TimeFloor(release1)
        makeupLin == IF makeup1 < 1000000 THEN 1000000
                     ELSE IF makeup1 > 64000000 THEN 64000000 ELSE makeup1
        \* lines 796-817: the ceiling and limiterLin, computed here
        limiterCeilingDb ==
            Max(-2400, IF veryCompressed THEN Min(band.PeakLevel - 10, 0)
                       ELSE band.PeakLevel - 80)
        limiterLin == Min(DbToLinear(limiterCeilingDb), 1000000)
        \* lines 825-826, 883-895: the limiter's times in hundredths of a
        \* millisecond; the override for very compressed material sets the
        \* times and limiterCeilingDb, which only the log line reads after it
        limiterAttack == IF veryCompressed THEN 8000
                         ELSE Min(Scale(2500, mods.AttackMultiplier), 8000)
        limiterRelease == IF veryCompressed THEN 200000
                          ELSE Min(Scale(15000, mods.ReleaseMultiplier), 800000)
    IN  [threshold |-> thresholdLin,
         ratio |-> RoundDiv(ratio, 10),
         attack |-> RoundDiv(attackMs, 10),
         release |-> RoundDiv(releaseMs, 10),
         makeup |-> 10,
         volume |-> RoundDiv(makeupLin, 1000),
         limit |-> limiterLin,
         limiterAttack |-> RoundDiv(limiterAttack, 100),
         limiterRelease |-> RoundDiv(limiterRelease, 100)]

\* part_007 lines 670-677 and 715-719: the modifiers and the call for one
\* band of buildMultibandCompression
BandCompressor(band, ds, preset, index) ==
    buildBandAcompressor(band, BandArguments(preset, index),
                         IF ds.nil THEN UnitModifiers
                         ELSE GetCompressionModifiers(ds.DynamicsScore))

\* compression.go lines 80-122; here the threshold is in hundred-millionths
ClampCompressorParams(thresholdLin, ratio, attackMs, releaseMs, makeupLin) ==
    [threshold |-> Min(IF thresholdLin < 97563 THEN 97563 ELSE thresholdLin,
                       100000000),
     ratio |-> Min(IF ratio < 100 THEN 100 ELSE ratio, 2000),
     attack |-> Min(TimeFloor(attackMs), 200000),
     release |-> Min(TimeFloor(releaseMs), 900000),
     makeup |-> Min(IF makeupLin < 1000000 THEN 1000000 ELSE makeupLin,
                    64000000)]

\* ui.go lines 985-1086; gains are in thousandths of a dB
ShelfWindow == 4000
NoLimit == 999000

clampExtremeEQ(gains) ==
    IF Len(gains) < 3 THEN gains
    ELSE
    LET n == Len(gains)
        lowShelf == gains[1]
        highShelf == gains[n]
        RECURSIVE SumInner(_)
        SumInner(i) == IF i > n - 1 THEN 0 ELSE gains[i] + SumInner(i + 1)
        sum == SumInner(2)
        \* avgNonExtremes is only compared with 0 and with the gains: both
        \* comparisons are made on sum, scaled by the number of inner bands
        avgIsPositive == sum >= 0
        firstNeighbor == gains[2]
        lastNeighbor == gains[n - 1]
        \* the limits are kept multiplied by n - 2, like the average
        k == n - 2
        maxLowFromAvg == IF avgIsPositive THEN sum ELSE NoLimit * k
        minLowFromAvg == IF avgIsPositive THEN -NoLimit * k ELSE sum
        maxLow == Min(Min((highShelf + ShelfWindow) * k,
                          (firstNeighbor + ShelfWindow) * k), maxLowFromAvg)
        minLow == Max(Max((highShelf - ShelfWindow) * k,
                          (firstNeighbor - ShelfWindow) * k), minLowFromAvg)
        low == IF lowShelf * k > maxLow THEN maxLow
               ELSE IF lowShelf * k < minLow THEN minLow
               ELSE lowShelf * k
        maxHigh == Min(Min(low + ShelfWindow * k,
                           (lastNeighbor + ShelfWindow) * k), maxLowFromAvg)
        minHigh == Max(Max(low - ShelfWindow * k,
                           (lastNeighbor - ShelfWindow) * k), minLowFromAvg)
        high == IF highShelf * k > maxHigh THEN maxHigh
                ELSE IF highShelf * k < minHigh THEN minHigh
                ELSE highShelf * k
    IN  [i \in 1..n |-> IF i = 1 THEN Rat(low, k)
                        ELSE IF i = n THEN Rat(high, k)
                        ELSE RatOf(gains[i])]

\* 10 gains within +-10 dB (ui.go lines 1128-1135): the two shelves and
\* their neighbours on a grid, the six bands between them all alike
GainGrid == {-10000, -5000, 0, 5000, 10000}

EqGainInputs ==
    {[fn |-> "clampExtremeEQ",
      gains |-> <<lo, n1, mid, mid, mid, mid, mid, mid, n2, hi>>] :
        lo \in GainGrid, n1 \in GainGrid, n2 \in GainGrid, hi \in GainGrid,
        mid \in {-10000, 0, 10000}}

ApplyClampExtremeEQ ==
    /\ fnIn.fn = "clampExtremeEQ"
    /\ ~fnOut.applied
    /\ fnOut' = Result(clampExtremeEQ(fnIn.gains))
    /\ UNCHANGED <<fnIn, runVars, batchVars, concVars, watchVars, liveVars>>

\* ui.go lines 1196-1201: ten times overallRMS, the sum of the levels (the
\* levels are in thousandths of a dB)
RECURSIVE SumLevels(_, _)
SumLevels(levels, i) ==
    IF i > Len(levels) THEN 0 ELSE levels[i] + SumLevels(levels, i + 1)

\* ui.go lines 1205-1232: the Flat targets; pinkNoiseRef is overallRMS and
\* a level is compared with it on the sum
calculateTargetCurve(levels) ==
    LET n == Len(levels)
        sum == SumLevels(levels, 1)
    IN  [i \in 1..n |->
            IF n * levels[i] > sum
            THEN LET excess == (n * levels[i] - sum) \div n
                 IN  levels[i] - Min(excess \div 2, 10000)
            ELSE levels[i]]

\* ui.go lines 1089-1190 for the Flat target: the gains after the +-10 dB
\* limit and clampExtremeEQ, and the parts of the chain: the high-pass of
\* the preset, then one filter for each band whose gain is not inside
\* (-0.5, 0.5)
EqPlan(levels) ==
    LET targetLevels == calculateTargetCurve(levels)
        gains == [i \in 1..Len(levels) |->
                     Max(-10000, Min(10000, targetLevels[i] - levels[i]))]
        clamped == clampExtremeEQ(gains)
        Adjusted(i) == ~(RatLess(RatOf(-500), clamped[i])
                         /\ RatLess(clamped[i], RatOf(500)))
        RECURSIVE FilterParts(_)
        FilterParts(i) ==
            IF i > Len(levels) THEN <<>>
            ELSE (IF Adjusted(i) THEN <<i>> ELSE <<>>) \o FilterParts(i + 1)
    IN  [overallRMS |-> Rat(SumLevels(levels, 1), Len(levels)),
         targetLevels |-> targetLevels,
         gains |-> clamped,
         highpassFilter |-> "highpass=f=25:p=2",
         filterParts |-> FilterParts(1),
         lowpassFilter |-> ""]

\* ui.go lines 1167-1182: the chain is empty if it has no part
EqChainEmpty(plan) ==
    plan.highpassFilter = "" /\ plan.filterParts = <<>>
        /\ plan.lowpassFilter = ""

\* 10 band levels: the two shelves and their neighbours on a grid, the six
\* bands between them all alike
LevelGrid == {-40000, -30000, -20000, 0}

EqLevelInputs ==
    {[fn |-> "buildEqFilter",
      levels |-> <<lo, n1, mid, mid, mid, mid, mid, mid, n2, hi>>] :
        lo \in LevelGrid, n1 \in LevelGrid, n2 \in LevelGrid,
        hi \in LevelGrid, mid \in LevelGrid}

ApplyBuildEqFilter ==
    /\ fnIn.fn = "buildEqFilter"
    /\ ~fnOut.applied
    /\ fnOut' = Result(EqPlan(fnIn.levels))
    /\ UNCHANGED <<fnIn, runVars, batchVars, concVars, watchVars, liveVars>>

\* strconv.ParseFloat of the texts a target can be (part_007 lines
\* 2024-2054), in hundredths; an error gives 0
ParseFloat(text) ==
    CASE text = "-23" -> -2300
      [] text = "-24" -> -2400
      [] text = "-16" -> -1600
      [] OTHER -> 0

\* part_007 lines 2405-2407
TrackGainSwapped(targetFloat, inputI) == inputI - targetFloat
TrackGain(targetFloat, inputI) == targetFloat - inputI

\* part_007 lines 2325-2414: what the final encode is given for the
\* measurement m (levels in hundredths): whether it has the loudnorm
\* filter, and the metadata: the gain in hundredths of a dB (%.2f), the
\* peak in millionths (%.6f), the reference loudness as text
FinalEncodeArgs(c, target, m) ==
    LET rgTpInLin == IF ~c.writeTags THEN 0
                     ELSE IF ~m.hasTp THEN 1000000
                     ELSE DbToLinear(m.input_tp)
        inputI == IF m.hasI THEN m.input_i ELSE 0
    IN  [loudnorm |-> c.UseLoudnorm /\ ~m.nil,
         tags |-> c.writeTags /\ ~m.nil,
         REPLAYGAIN_TRACK_GAIN |-> TrackGain(ParseFloat(target), inputI),
         REPLAYGAIN_TRACK_PEAK |-> rgTpInLin,
         REPLAYGAIN_REFERENCE_LOUDNESS |-> target]

\* the measurements of part_007 lines 2484-2517: each of "I:" and "Peak:"
\* found or not, and no measurement
MeasurementInputs ==
    {[nil |-> TRUE, hasI |-> FALSE, input_i |-> 0, hasTp |-> FALSE,
      input_tp |-> 0]} \cup
    {[nil |-> FALSE, hasI |-> hi, input_i |-> IF hi THEN i ELSE 0,
      hasTp |-> ht, input_tp |-> IF ht THEN tp ELSE 0] :
        hi \in BOOLEAN, ht \in BOOLEAN,
        i \in {-3000, -2260, -1600, -500}, tp \in {-600, -100, 0, 200}}

FinalEncodeInputs ==
    [fn : {"finalEncode"},
     cfg : [UseLoudnorm : BOOLEAN, writeTags : BOOLEAN],
     target : {"-23", "-24", "-16"},
     measured : MeasurementInputs]

\* a measurement is nil only if the mode that measures failed, and then
\* the run has returned before the encode (part_007 lines 2304-2319)
ApplyFinalEncodeArgs ==
    /\ fnIn.fn = "finalEncode"
    /\ ~fnOut.applied
    /\ fnIn.measured.nil <=> (~fnIn.cfg.UseLoudnorm /\ ~fnIn.cfg.writeTags)
    /\ fnOut' = Result(FinalEncodeArgs(fnIn.cfg, fnIn.target, fnIn.measured))
    /\ UNCHANGED <<fnIn, runVars, batchVars, concVars, watchVars, liveVars>>

Scores == 0..MaxScore

ModifierInputs == [fn : {"GetCompressionModifiers"}, ds : Scores]

\* a Dynamics Score of each branch of GetCompressionModifiers, or none
ScoreInputs ==
    {[nil |-> TRUE, DynamicsScore |-> 0]} \cup
    [nil : {FALSE},
     DynamicsScore : {0, 899, 900, 1499, 1500, 2100, 2101, 6000, MaxScore}]

\* whole-file statistics from silence to full scale
AnalysisInputs ==
    {[RMSLevel |-> rms, RMSPeak |-> rms + up, CrestFactor |-> crest] :
        rms \in {-12000, -6000, -2000, -500, 0, 1000},
        up \in {0, 300, 1500, 4000},
        crest \in {100, 300, 450, 500, 600, 800, 1100, 1600, 3000}}

SingleBandInputs ==
    [fn : {"calculateAdaptiveCompression"}, analysis : AnalysisInputs,
     ds : ScoreInputs, preset : Presets]

\* the statistics of one band, or none for a band the analysis left out
BandInputs ==
    {[nil |-> TRUE, PeakLevel |-> 0, RMSLevel |-> 0]} \cup
    {[nil |-> FALSE, PeakLevel |-> rms + up, RMSLevel |-> rms] :
        rms \in {-12000, -6000, -2000, -500, 0, 1000},
        up \in {0, 1000, 2500}}

MultibandInputs ==
    [fn : {"buildBandAcompressor"}, band : BandInputs, ds : ScoreInputs,
     preset : Presets, index : 1..5]

ClampInputs ==
    [fn : {"ClampCompressorParams"},
     thresholdLin : {0, 97562, 97563, 99000, 50000000, 100000000, 100000001},
     ratio : {0, 99, 100, 2000, 2001},
     attackMs : {0, 1, 200000, 200001},
     releaseMs : {0, 1, 900000, 900001},
     makeupLin : {0, 1000000, 64000000, 64000001}]

PureInputs ==
    ModifierInputs \cup EqGainInputs \cup SingleBandInputs
        \cup MultibandInputs \cup ClampInputs \cup EqLevelInputs
        \cup FinalEncodeInputs

PureInit == fnIn \in PureInputs /\ fnOut = NoResult

ApplyGetCompressionModifiers ==
    /\ fnIn.fn = "GetCompressionModifiers"
    /\ ~fnOut.applied
    /\ fnOut' = Result(GetCompressionModifiers(fnIn.ds))
    /\ UNCHANGED <<fnIn, runVars, batchVars, concVars, watchVars, liveVars>>

ApplyCalculateAdaptiveCompression ==
    /\ fnIn.fn = "calculateAdaptiveCompression"
    /\ ~fnOut.applied
    /\ fnOut' = Result(SingleBandCompressor(fnIn.analysis, fnIn.ds,
                                            fnIn.preset))
    /\ UNCHANGED <<fnIn, runVars, batchVars, concVars, watchVars, liveVars>>

ApplyBuildBandAcompressor ==
    /\ fnIn.fn = "buildBandAcompressor"
    /\ ~fnOut.applied
    /\ fnOut' = Result(BandCompressor(fnIn.band, fnIn.ds, fnIn.preset,
                                      fnIn.index))
    /\ UNCHANGED <<fnIn, runVars, batchVars, concVars, watchVars, liveVars>>

ApplyClampCompressorParams ==
    /\ fnIn.fn = "ClampCompressorParams"
    /\ ~fnOut.applied
    /\ fnOut' = Result(ClampCompressorParams(fnIn.thresholdLin, fnIn.ratio,
                                             fnIn.attackMs, fnIn.releaseMs,
                                             fnIn.makeupLin))
    /\ UNCHANGED <<fnIn, runVars, batchVars, concVars, watchVars, liveVars>>

----------------------------------------------------------------------------
(* Specifications *)

Init == RunInit /\ BatchIdle /\ ExtIdle

Next ==
    \/ Start
    \/ EqAnalysis
    \/ EqApply
    \/ DsScore
    \/ DynAnalysis
    \/ DynApply
    \/ DynMeasureLoudnorm
    \/ DynMeasureTags
    \/ PeakCheck
    \/ Attenuate
    \/ BandAnalysis
    \/ SbcAnalysis
    \/ CompApply
    \/ MeasureLoudnorm
    \/ MeasureTags
    \/ Encode

Spec == Init /\ [][Next]_vars

InitBatch == RunIdle /\ BatchInit /\ ExtIdle

NextBatch ==
    \/ SpawnWorkers
    \/ Enqueue
    \/ CloseJobs
    \/ \E w \in Workers : WorkerReceive(w)
    \/ \E w \in Workers : WorkerExit(w)
    \/ \E w \in Workers : WorkerPhaseCheck(w)
    \/ \E w \in Workers : WorkerCall(w)
    \/ \E w \in Workers : WorkerReturn(w)
    \/ CloseResults
    \/ Collect
    \/ Complete

SpecBatch == InitBatch /\ [][NextBatch]_vars

InitConc == RunIdle /\ BatchIdle /\ ConcInit /\ WatchIdle /\ PureIdle

NextConc ==
    \/ Tick
    \/ \E r \in RunIds : RenderTemp(r)
    \/ \E r \in RunIds : ReturnRun(r)

SpecConc == InitConc /\ [][NextConc]_vars

InitWatch == RunIdle /\ BatchIdle /\ ConcIdle /\ WatchInit /\ PureIdle

NextWatch ==
    \/ ChangeSettings
    \/ WatcherEvent
    \/ WatcherSend
    \/ WatcherExit
    \/ WatchDequeue
    \/ WatchRunReturn
    \/ WatchQueueExit
    \/ StopWatching
    \/ DrainCheck
    \/ DrainRecv
    \/ StartWatching
    \/ PrevWatcherExit
    \/ PrevRunReturn
    \/ PrevDequeue
    \/ PrevQueueExit

SpecWatch == InitWatch /\ [][NextWatch]_vars

\* the Go scheduler runs every goroutine that can take a step, and the
\* call of stopWatching goes on while its next statement can execute; the
\* user's actions and the file system's events carry no such obligation
SpecWatchLive ==
    /\ InitWatch
    /\ [][NextWatch]_vars
    /\ WF_vars(WatcherSend)
    /\ WF_vars(WatcherExit)
    /\ WF_vars(WatchDequeue)
    /\ WF_vars(WatchRunReturn)
    /\ WF_vars(WatchQueueExit)
    /\ WF_vars(DrainCheck)
    /\ WF_vars(DrainRecv)
    /\ WF_vars(PrevWatcherExit)
    /\ WF_vars(PrevRunReturn)
    /\ WF_vars(PrevDequeue)
    /\ WF_vars(PrevQueueExit)

InitLive == RunStart(LiveInputs) /\ BatchIdle /\ ExtIdle

NextLive ==
    \/ UiChange
    \/ Start
    \/ EqAnalysis
    \/ EqApply
    \/ DsScore
    \/ DynAnalysis
    \/ DynApply
    \/ DynMeasureLoudnorm
    \/ DynMeasureTags
    \/ PeakCheck
    \/ Attenuate
    \/ BandAnalysis
    \/ SbcAnalysis
    \/ CompApply
    \/ MeasureLoudnorm
    \/ MeasureTags
    \/ Encode

SpecLive == InitLive /\ [][NextLive]_vars

InitPure ==
    RunIdle /\ BatchIdle /\ ConcIdle /\ WatchIdle /\ PureInit

NextPure ==
    \/ ApplyGetCompressionModifiers
    \/ ApplyClampExtremeEQ
    \/ ApplyCalculateAdaptiveCompression
    \/ ApplyBuildBandAcompressor
    \/ ApplyClampCompressorParams
    \/ ApplyBuildEqFilter
    \/ ApplyFinalEncodeArgs

SpecPure == InitPure /\ [][NextPure]_vars

\* the goroutines of a batch: the enqueuer and collector, the closer, and
\* the workers.  The Go scheduler runs every goroutine that can take a step;
\* a started processFile returns and an opened confirmation dialog is
\* answered.
MainStep == SpawnWorkers \/ Enqueue \/ CloseJobs \/ Collect \/ Complete

WorkerStep(w) ==
    /\ w \in Workers
    /\ \/ WorkerReceive(w)
       \/ WorkerExit(w)
       \/ WorkerPhaseCheck(w)
       \/ WorkerCall(w)
       \/ WorkerReturn(w)

ProcessBtnEnabled == bpc \in {"idle", "done"}

SpecBatchLive ==
    /\ InitBatch
    /\ [][NextBatch]_vars
    /\ WF_vars(MainStep)
    /\ WF_vars(CloseResults)
    /\ \A w \in 1..MaxCPU : WF_vars(WorkerStep(w))

----------------------------------------------------------------------------
(* Properties of one run of processFile (specification Spec)              *)

Last(sq) == sq[Len(sq)]
Ops == {invocations[i].op : i \in 1..Len(invocations)}

\* the invocations that materialize a temp artifact
ApplyOps == {"eq_apply", "dyn_apply", "atten", "comp_apply"}

\* the failure records of the run: its status lines marked with the cross
FailRecords == Cardinality({i \in 1..Len(statusLog) : statusLog[i].mark = "x"})

C2_StageFailureAborts ==
    \A i \in 1..Len(invocations) :
        (invocations[i].op \in ApplyOps /\ ~invocations[i].ok)
        => (i = Len(invocations) /\ pc = "done" /\ ~result)

\* C2 witness: the compression render fails after EQ and dynamic
\* normalization were applied.
C2_Witness ==
    /\ Len(invocations) >= 5
    /\ Last(invocations).op = "comp_apply"
    /\ ~Last(invocations).ok
    /\ {"eq_apply", "dyn_apply"} \subseteq Ops

\* the stage an invocation belongs to, in the order EQ, dynamic
\* normalization, dynamics compression, loudness measurement, final encode
\* (0: the Dynamics Score, which the order does not name)
StageRank(op) ==
    CASE op \in {"eq_analysis", "eq_apply"} -> 1
      [] op \in {"dyn_analysis", "dyn_apply"} -> 2
      [] op \in {"peak_check", "atten", "band_analysis", "dynamics_analysis",
                 "comp_apply"} -> 3
      [] op \in {"measure_loudnorm", "measure_ebur128"} -> 4
      [] op = "encode" -> 5
      [] OTHER -> 0

\* C3: the invocations of a run are in stage order: none of an earlier
\* stage follows one of a later stage (so no loudness measurement precedes
\* an invocation of the dynamics-compression stage).
C3_StageOrder ==
    \A i, j \in 1..Len(invocations) :
        (i < j /\ StageRank(invocations[i].op) # 0
               /\ StageRank(invocations[j].op) # 0)
        => StageRank(invocations[i].op) <= StageRank(invocations[j].op)

\* C4: no invocation of the run, neither a stage render into a temp
\* artifact nor the final encode into the output path, writes to the input
\* path.
C4_InputNeverWritten ==
    \A i \in 1..Len(invocations) : invocations[i].output # inputPath

\* C5: once a band measurement of the 10-band EQ analysis has failed, no
\* further invocation is issued and the run returns false.
C5_EqBandFailureAborts ==
    \A i \in 1..Len(invocations) :
        (invocations[i].op = "eq_analysis" /\ invocations[i].failed >= 1)
        => (i = Len(invocations) /\ (pc = "done" => ~result))

\* C6: once the hot-peak check or a band measurement of the five-band
\* analysis has failed, no further invocation (in particular no compression)
\* is issued and the run returns false.
C6_MultibandMeasurementFailureAborts ==
    \A i \in 1..Len(invocations) :
        (\/ invocations[i].op = "peak_check" /\ ~invocations[i].ok
         \/ invocations[i].op = "band_analysis" /\ invocations[i].failed >= 1)
        => (i = Len(invocations) /\ (pc = "done" => ~result))

\* C7: in tag-only mode, once a successful loudness measurement has been
\* parsed without the "I:" or the "Peak:" field, no further invocation is
\* issued (no encode writes ReplayGain metadata) and the run returns false.
C7_UnparseableMeasurementAborts ==
    (/\ cfg.writeTags
     /\ ~cfg.UseLoudnorm
     /\ ~measured.nil
     /\ ~({"input_i", "input_tp"} \subseteq measured.keys))
    => (/\ Last(invocations).op = "measure_ebur128"
        /\ pc = "done" => ~result)

\* C8: a run whose final encode has failed has returned false and has left
\* no file at its output path.
C8_FailedEncodeLeavesNoOutput ==
    (/\ pc = "done"
     /\ Last(invocations).op = "encode"
     /\ ~Last(invocations).ok
     /\ outputPath # inputPath)
    => (~result /\ outputPath \notin fs)

\* C9: a run has emitted exactly one failure record if it has returned
\* false, and none otherwise (neither while it runs nor when it succeeds).
C9_OneFailureRecord ==
    FailRecords = IF pc = "done" /\ ~result THEN 1 ELSE 0

\* C9 witness: scenario D, the EQ render fails; one failure record.
C9_Witness ==
    /\ pc = "done"
    /\ ~result
    /\ Last(invocations).op = "eq_apply"
    /\ FailRecords = 1

\* the analyses and renders of the four processing stages
EqOps == {"eq_analysis", "eq_apply"}
DsOps == {"ds_score"}
DynNormOps == {"dyn_analysis", "dyn_apply"}
DynamicsOps == {"peak_check", "atten", "band_analysis", "dynamics_analysis",
                "comp_apply"}
ProcessingOps == EqOps \cup DsOps \cup DynNormOps \cup DynamicsOps

\* the run has passed the four processing stages
PastProcessing == pc \in {"measure", "measure_tags", "encode"}
                  \/ (pc = "done" /\ result)

\* C16: with bypass set, a run issues none of the EQ, Dynamics Score,
\* dynamic-normalization and dynamics analyses or renders, has no temp
\* artifact, and its final encode reads the input path; without bypass, a
\* stage issues invocations only if it was requested, and a run that has
\* passed the stages has run the analysis of each requested stage.
C16_BypassAndStageGuards ==
    /\ cfg.bypassProc =>
          /\ Ops \cap ProcessingOps = {}
          /\ tempFiles = <<>>
          /\ \A i \in 1..Len(invocations) :
                invocations[i].op = "encode"
                => invocations[i].input = inputPath
    /\ ~cfg.bypassProc =>
          /\ Ops \cap EqOps # {} => cfg.EqTarget \notin {"", "Off"}
          /\ Ops \cap DynNormOps # {} => cfg.DynNorm
          /\ Ops \cap (DsOps \cup DynamicsOps) # {}
                => cfg.DynamicsPreset \notin {"", "Off"}
          /\ PastProcessing =>
                /\ cfg.EqTarget \notin {"", "Off"} => "eq_analysis" \in Ops
                /\ cfg.DynNorm => "dyn_analysis" \in Ops
                /\ cfg.DynamicsPreset \notin {"", "Off"} =>
                      /\ "ds_score" \in Ops
                      /\ Ops \cap {"peak_check", "dynamics_analysis"} # {}

\* C16 witness: a bypassed run with all stages requested has succeeded with
\* the final encode reading the input path.
C16_Witness ==
    /\ cfg.bypassProc
    /\ cfg.EqTarget = "Flat" /\ cfg.DynNorm /\ cfg.DynamicsPreset = "Broadcast"
    /\ pc = "done" /\ result
    /\ Last(invocations).op = "encode"
    /\ Last(invocations).input = inputPath

\* the run has gone beyond the place of the Dynamics Score
PastDsScore ==
    \/ pc \notin {"idle", "start", "eq", "eq_apply", "ds", "done"}
    \/ pc = "done" /\ result

DsScoreCalls == {i \in 1..Len(invocations) : invocations[i].op = "ds_score"}

\* C30: the Dynamics Score is computed from the input file, never from the
\* working artifact: every invocation of calculateDynamicsScore reads
\* inputPath, there is one in a run that has passed its place exactly if a
\* dynamics preset is requested and bypass is not set (and none otherwise),
\* and a failed one is the last invocation of a run that has returned false.
C30_DynamicsScoreFromInputFile ==
    /\ \A i \in DsScoreCalls :
          /\ invocations[i].input = inputPath
          /\ ~cfg.bypassProc
          /\ cfg.DynamicsPreset \notin {"", "Off"}
          /\ ~invocations[i].ok =>
                (i = Len(invocations) /\ pc = "done" /\ ~result)
    /\ Cardinality(DsScoreCalls) <= 1
    /\ (PastDsScore /\ ~cfg.bypassProc /\ cfg.DynamicsPreset \notin {"", "Off"})
          => DsScoreCalls # {}

\* C30 witness: a run with the EQ and the dynamic normalization applied
\* (the working path replaced twice) has succeeded, its Dynamics Score read
\* from the input path.
C30_Witness ==
    /\ pc = "done" /\ result
    /\ {"eq_apply", "dyn_apply", "comp_apply"} \subseteq Ops
    /\ workingPath # inputPath
    /\ \E i \in DsScoreCalls : invocations[i].input = inputPath

MeasureOps == {"measure_loudnorm", "measure_ebur128"}

EncodeCalls == {i \in 1..Len(invocations) : invocations[i].op = "encode"}

\* C29: in a run that reaches the final encode with normalization or tagging
\* enabled, the measurement in use was taken on the artifact the encode
\* reads: the invocation just before the encode is a successful measurement
\* of the path the encode reads, the measurement held is one of that path,
\* and the encode carries the normalization filter and the tags as enabled.
C29_FinalMeasurementOnEncodedArtifact ==
    \A i \in EncodeCalls :
        (cfg.UseLoudnorm \/ cfg.writeTags) =>
            /\ i > 1
            /\ invocations[i - 1].op \in MeasureOps
            /\ invocations[i - 1].ok
            /\ invocations[i - 1].input = invocations[i].input
            /\ ~measured.nil
            /\ measured.from = invocations[i].input
            /\ invocations[i].loudnorm = cfg.UseLoudnorm
            /\ invocations[i].tags = cfg.writeTags

\* C29 witness: a normalizing run measured the artifact of the dynamic
\* normalization inside that stage, was compressed afterwards, and its final
\* encode reads the compressed artifact, which the measurement in use is of.
C29_Witness ==
    /\ pc = "done" /\ result
    /\ cfg.UseLoudnorm
    /\ {"dyn_apply", "comp_apply"} \subseteq Ops
    /\ \E j \in 1..Len(invocations) :
          /\ invocations[j].op = "measure_loudnorm"
          /\ invocations[j].input # Last(invocations).input
    /\ Last(invocations).op = "encode"
    /\ Last(invocations).loudnorm
    /\ measured.from = Last(invocations).input
    /\ measured.from = Last(tempFiles)

\* C26: after a Broadcast peak check that measured an overall peak, the next
\* invocation is the attenuation exactly if that peak is above -5 dB, its
\* gain is then -6 dB minus the peak, and the five-band analysis and the
\* compression that follow read the attenuated artifact if it was made and
\* the path the peak check read otherwise.  (The code compares the first
\* "Peak level dB" of the output, that of channel 1.)
C26_AttenuationIffOverallPeakHot ==
    \A i \in 1..(Len(invocations) - 1) :
        (invocations[i].op = "peak_check" /\ invocations[i].overall # NoPeak)
        => LET hot == invocations[i].overall > -5
               next == invocations[i + 1]
           IN  /\ hot <=> next.op = "atten"
               /\ hot => next.arg = -6 - invocations[i].overall
               /\ \A j \in (i + 1)..Len(invocations) :
                      invocations[j].op \in {"band_analysis", "comp_apply"}
                      => invocations[j].input =
                             IF hot THEN next.output
                             ELSE invocations[i].input

----------------------------------------------------------------------------
(* Properties of one batch of process() (specification SpecBatch)         *)

\* C10: no file is received by a worker more than once and none has more
\* results than receipts; when the batch is complete every file has been
\* received exactly once and has produced exactly one result, and the
\* collector has counted one result per file.
C10_OneWorkerOneResultPerFile ==
    /\ \A f \in FileIds : handled[f] <= 1 /\ Len(produced[f]) <= handled[f]
    /\ bpc = "done" =>
         /\ \A f \in FileIds : handled[f] = 1 /\ Len(produced[f]) = 1
         /\ processed = Len(files)

\* C10 witness: a complete batch of two files, one skipped and the other
\* processed successfully.
C10_Witness ==
    /\ bpc = "done"
    /\ Len(files) = 2
    /\ \E f, g \in FileIds : produced[f] = <<"skipped">>
                             /\ produced[g] = <<"success">>

\* C11: under fair scheduling of the goroutines a batch eventually
\* completes and stays complete: all files enqueued and the job queue closed
\* and drained, every worker exited, the results channel closed, one result
\* counted per file and the process button enabled again; and the results
\* channel is never closed while a worker has not exited.
BatchComplete ==
    /\ nextFile = Len(files) + 1
    /\ jobsClosed /\ jobs = <<>>
    /\ worker # <<>> /\ \A w \in Workers : worker[w].pc = "exited"
    /\ resultsClosed /\ results = <<>>
    /\ processed = Len(files)
    /\ ProcessBtnEnabled

----------------------------------------------------------------------------
(* Properties of concurrent runs (specification SpecConc)                 *)

\* C12: no two temp artifacts, of two runs that execute at the same time or
\* of one run, have the same path.
C12_TempPathsDistinct ==
    \A r1, r2 \in RunIds :
        \A i \in 1..Len(runs[r1].tempFiles), j \in 1..Len(runs[r2].tempFiles) :
            (r1 # r2 \/ i # j)
            => runs[r1].tempFiles[i] # runs[r2].tempFiles[j]

----------------------------------------------------------------------------
(* Properties of watch mode (specification SpecWatch)                     *)

\* C13: every run started from the watch queue is given the configuration
\* that was in effect when its file was enqueued.
C13_WatchRunUsesDetectionConfig ==
    \A i \in 1..Len(started) :
        started[i].config = detected[started[i].file]

\* C14: no run is started from the watch queue once the stop signal has
\* been closed.
C14_NoDequeueAfterStop ==
    \A i \in 1..Len(started) : ~started[i].afterStop

\* C28: watch-triggered files are processed one at a time: whatever starts
\* and stops have happened, at most one processWatchQueue and at most one
\* watchDirectory are active on the present queue, and no two runs started
\* from the watch queue are in flight together.  The goroutines of the last
\* start work on the present channels until they return; one of the start
\* before does so once it has entered a select with the present channels.
C28_OneWatchRunAtATime ==
    /\ ~(wq.pc # "exited" /\ prev.wq.pc = "select")
    /\ ~(wd.pc # "exited" /\ prev.wd.pc \in {"select", "send"})
    /\ ~(wq.pc = "running" /\ prev.wq.pc = "running")

\* stopWatching is inside its drain loop, holding watcherMutex
InDrainLoop == sw \in {"drain", "recv"}

\* C27: every call of stopWatching returns: once it is in its drain loop it
\* eventually leaves it, whatever watchDirectory and processWatchQueue do
\* in between.
C27_StopWatchingTerminates == InDrainLoop ~> (sw = "done")

----------------------------------------------------------------------------
(* Properties of a run whose window is changed (specification SpecLive)   *)

\* C15: the final encode of a run is the one its input and the settings
\* captured at submission determine: its output path, its stream-copy flag
\* and its loudness target are those of the settings at submission, whatever
\* was changed in the window since.
C15_CommandsFromCapturedConfigOnly ==
    \A i \in 1..Len(invocations) :
        invocations[i].op = "encode" =>
            /\ invocations[i].output = OutputPathOf(cfg, submitted, inputPath)
            /\ invocations[i].copy = ArgsOf(submitted).copy
            /\ invocations[i].target \in {"", ArgsOf(submitted).target}

----------------------------------------------------------------------------
(* Properties of the numeric helpers (specification SpecPure)             *)

\* the compressor c, whose threshold is in 1/tu (tu divides 10^8), ratio in
\* 1/ru, times in
\* 1/mu of a millisecond and makeup in 1/gu, is inside the ranges
\* threshold [0.00097563, 1], ratio [1, 20], attack [0.01, 2000] ms,
\* release [0.01, 9000] ms and makeup [1, 64]
WithinClampRanges(c, tu, ru, mu, gu) ==
    /\ (100000000 \div tu) * c.threshold >= 97563 /\ c.threshold <= tu
    /\ c.ratio >= ru /\ c.ratio <= 20 * ru
    /\ 100 * c.attack >= mu /\ c.attack <= 2000 * mu
    /\ 100 * c.release >= mu /\ c.release <= 9000 * mu
    /\ c.makeup >= gu /\ c.makeup <= 64 * gu

\* C17: for every statistics, preset and Dynamics Score, the compressor the
\* single-band engine emits and the compressor the multiband engine emits
\* for each band have threshold in [0.00097563, 1], ratio in [1, 20],
\* attack in [0.01, 2000] ms, release in [0.01, 9000] ms and makeup in
\* [1, 64] (for a band both the makeup written in the compressor and the
\* makeup gain written after it), and so have the parameters
\* ClampCompressorParams returns.
C17_CompressorWithinClampRanges ==
    fnOut.applied =>
        /\ fnIn.fn = "calculateAdaptiveCompression" =>
               WithinClampRanges(fnOut.value, 1000000, 10, 1, 10)
        /\ fnIn.fn = "buildBandAcompressor" =>
               /\ WithinClampRanges(fnOut.value, 1000000, 10, 10, 10)
               /\ fnOut.value.volume >= 1000
               /\ fnOut.value.volume <= 64000
        /\ fnIn.fn = "ClampCompressorParams" =>
               WithinClampRanges(fnOut.value, 100000000, 100, 100, 1000000)

\* C17 witness: for a near-silent file with a score below 9 the single-band
\* engine has emitted its compressor with the threshold raised to the
\* floor and the requested ratio of 0.21 raised to 1.
C17_Witness ==
    /\ fnIn.fn = "calculateAdaptiveCompression" /\ fnOut.applied
    /\ fnIn.analysis.RMSLevel = -12000 /\ fnIn.analysis.CrestFactor = 100
    /\ ~fnIn.ds.nil /\ fnIn.ds.DynamicsScore = 899
    /\ fnOut.value.threshold = 990
    /\ fnOut.value.ratio = 10

ModifiersApplied ==
    fnIn.fn = "GetCompressionModifiers" /\ fnOut.applied

\* the multipliers m are attack a, release r and ratio q
IsModifiers(m, a, r, q) ==
    /\ RatEq(m.AttackMultiplier, a)
    /\ RatEq(m.ReleaseMultiplier, r)
    /\ RatEq(m.RatioMultiplier, q)

\* C18: GetCompressionModifiers of a non-negative score is {4, 4, 0.15}
\* below 9, {2, 2, 2.1} from 9 to below 15, {1, 1, 1} from 15 to 21
\* inclusive, and above 21, with e = min(score - 21, 79), attack and release
\* 1/(2 + 2e/79) and ratio 4 + 4e/79, which is {1/4, 1/4, 8} from 100 on.
C18_ModifiersPiecewise ==
    ModifiersApplied =>
        LET s == fnIn.ds
            e == Min(s - 2100, 7900)
        IN  /\ s < 900 => IsModifiers(fnOut.value, RatOf(4), RatOf(4), Rat(15, 100))
            /\ (900 <= s /\ s < 1500) =>
                  IsModifiers(fnOut.value, RatOf(2), RatOf(2), Rat(21, 10))
            /\ (1500 <= s /\ s <= 2100) =>
                  IsModifiers(fnOut.value, RatOf(1), RatOf(1), RatOf(1))
            /\ s > 2100 =>
                  IsModifiers(fnOut.value, Rat(7900, 15800 + 2 * e),
                              Rat(7900, 15800 + 2 * e),
                              Rat(31600 + 4 * e, 7900))
            /\ s >= 10000 =>
                  IsModifiers(fnOut.value, Rat(1, 4), Rat(1, 4), RatOf(8))

\* C18 witness: the score 21 gives exactly {1, 1, 1}.
C18_Witness ==
    /\ ModifiersApplied
    /\ fnIn.ds = 2100
    /\ fnOut.value = [AttackMultiplier |-> RatOf(1), ReleaseMultiplier |-> RatOf(1),
                  RatioMultiplier |-> RatOf(1)]

\* two sets of multipliers differ by at most one hundredth in each field
CloseModifiers(m1, m2) ==
    \A f \in {"AttackMultiplier", "ReleaseMultiplier", "RatioMultiplier"} :
        RatLeq(RatAbs(RatSub(m1[f], m2[f])), Rat(1, 100))

BranchOf(s) ==
    IF s < 900 THEN 1 ELSE IF s < 1500 THEN 2 ELSE IF s <= 2100 THEN 3 ELSE 4

\* C19 as stated: at the scores 9, 15 and 21 the multipliers coincide with
\* those one hundredth below and one hundredth above.
C19_ContinuousAtBoundaries ==
    (ModifiersApplied /\ fnIn.ds \in {900, 1500, 2100}) =>
        /\ CloseModifiers(fnOut.value, GetCompressionModifiers(fnIn.ds - 1))
        /\ CloseModifiers(fnOut.value, GetCompressionModifiers(fnIn.ds + 1))

\* C19 amended: the mapping is continuous inside each of its four branches
\* (scores one hundredth apart in the same branch give multipliers at most
\* one hundredth apart); 9 and 15 belong to the branch above them and 21 to
\* the branch below it.
C19_PiecewiseContinuous ==
    ModifiersApplied =>
        /\ BranchOf(fnIn.ds) = BranchOf(fnIn.ds + 1) =>
              CloseModifiers(fnOut.value, GetCompressionModifiers(fnIn.ds + 1))
        /\ fnIn.ds \in {900, 1500} =>
              fnOut.value = GetCompressionModifiers(fnIn.ds + 1)
        /\ fnIn.ds = 2100 => fnOut.value = GetCompressionModifiers(fnIn.ds - 1)

\* C19 witness: the score 9 has the multipliers of the scores just above it
\* and not those of the scores just below it.
C19_Witness ==
    /\ ModifiersApplied
    /\ fnIn.ds = 900
    /\ fnOut.value = GetCompressionModifiers(901)
    /\ ~CloseModifiers(fnOut.value, GetCompressionModifiers(899))

\* the distance of two gains is at most 4 dB
WithinShelfWindow(a, b) == RatLeq(RatAbs(RatSub(a, b)), RatOf(4000))

\* C20: the gains returned by clampExtremeEQ for 10 gains within +-10 dB
\* have the low shelf within 4 dB of the high shelf and of band 2, the high
\* shelf within 4 dB of band 9, and bands 2 to 9 as they were given.
C20_ShelvesWithinFourDb ==
    (fnIn.fn = "clampExtremeEQ" /\ fnOut.applied) =>
        LET out == fnOut.value
        IN  /\ WithinShelfWindow(out[1], out[10])
            /\ WithinShelfWindow(out[1], out[2])
            /\ WithinShelfWindow(out[10], out[9])
            /\ \A i \in 2..9 : out[i] = RatOf(fnIn.gains[i])

\* C23: with no Dynamics Score the compressor calculateAdaptiveCompression
\* emits has the threshold of RMSLevel + 6, 5 or 4 dB (inside the limits of
\* the threshold), attack/release 100/250, 40/150 or 10/30 ms for Light,
\* Moderate and Broadcast, and the ratio of the crest table (up to 3: 1.4,
\* up to 5: 2.0, up to 8: 4.0, from 16: 8, between: 4 + (crest - 8)/2); the
\* chain has a limiter exactly if the crest factor is above 5, and its
\* ceiling is -1 dB (0.891251).
C23_UnscoredSingleBandParameters ==
    (fnIn.fn = "calculateAdaptiveCompression" /\ fnOut.applied
        /\ fnIn.ds.nil) =>
        LET a == fnIn.analysis
            out == fnOut.value
            light == fnIn.preset = "Light"
            moderate == fnIn.preset = "Moderate"
            thresholdDb == a.RMSLevel + (IF light THEN 600
                                         ELSE IF moderate THEN 500 ELSE 400)
            crest == a.CrestFactor
            ratio == IF crest <= 300 THEN 14
                     ELSE IF crest <= 500 THEN 20
                     ELSE IF crest <= 800 THEN 40
                     ELSE IF crest >= 1600 THEN 80
                     ELSE RoundDiv(800 + (crest - 800), 20)
        IN  /\ out.threshold = Max(990, Min(1000000, DbToLinear(thresholdDb)))
            /\ out.ratio = ratio
            /\ out.attack = (IF light THEN 100 ELSE IF moderate THEN 40 ELSE 10)
            /\ out.release = (IF light THEN 250
                              ELSE IF moderate THEN 150 ELSE 30)
            /\ out.limiter <=> crest > 500
            /\ out.limiter => out.limit = 891251

\* C23 witness: Moderate, RMS level -20 dB, crest factor 6 and no score
\* have given threshold 0.177828 (-15 dB), ratio 4.0, attack 40 ms, release
\* 150 ms and a limiter.
C23_Witness ==
    /\ fnIn.fn = "calculateAdaptiveCompression" /\ fnOut.applied
    /\ fnIn.ds.nil /\ fnIn.preset = "Moderate"
    /\ fnIn.analysis.RMSLevel = -2000 /\ fnIn.analysis.CrestFactor = 600
    /\ fnOut.value.threshold = 177828
    /\ fnOut.value.ratio = 40
    /\ fnOut.value.attack = 40 /\ fnOut.value.release = 150
    /\ fnOut.value.limiter

\* C24: in tag-only mode (tags requested, normalization not) with a
\* measurement that has the integrated loudness and the true peak, the
\* final encode is given REPLAYGAIN_TRACK_GAIN = target - measured
\* integrated loudness, REPLAYGAIN_TRACK_PEAK = 10^(true peak / 20) and
\* REPLAYGAIN_REFERENCE_LOUDNESS = the target, and no loudnorm filter.
C24_TagOnlyReplayGain ==
    (fnIn.fn = "finalEncode" /\ fnOut.applied
        /\ fnIn.cfg.writeTags /\ ~fnIn.cfg.UseLoudnorm
        /\ fnIn.measured.hasI /\ fnIn.measured.hasTp) =>
        LET out == fnOut.value
            targetLufs == CASE fnIn.target = "-23" -> -2300
                            [] fnIn.target = "-24" -> -2400
                            [] fnIn.target = "-16" -> -1600
            peak == CASE fnIn.measured.input_tp = -600 -> 501187
                      [] fnIn.measured.input_tp = -100 -> 891251
                      [] fnIn.measured.input_tp = 0 -> 1000000
                      [] fnIn.measured.input_tp = 200 -> 1258930
        IN  /\ out.tags /\ ~out.loudnorm
            /\ out.REPLAYGAIN_TRACK_GAIN + fnIn.measured.input_i = targetLufs
            /\ out.REPLAYGAIN_TRACK_PEAK = peak
            /\ out.REPLAYGAIN_REFERENCE_LOUDNESS = fnIn.target

\* C24 witness: target -23 LUFS, measured -22.6 LUFS and -1 dB true peak
\* have given the gain -0.40 dB and the peak 0.891251.
C24_Witness ==
    /\ fnIn.fn = "finalEncode" /\ fnOut.applied
    /\ fnIn.cfg.writeTags /\ ~fnIn.cfg.UseLoudnorm
    /\ fnIn.target = "-23"
    /\ fnIn.measured.hasI /\ fnIn.measured.input_i = -2260
    /\ fnIn.measured.hasTp /\ fnIn.measured.input_tp = -100
    /\ fnOut.value.REPLAYGAIN_TRACK_GAIN = -40
    /\ fnOut.value.REPLAYGAIN_TRACK_PEAK = 891251

\* the band compressor was built for a band with measurements
BandBuilt ==
    fnIn.fn = "buildBandAcompressor" /\ fnOut.applied /\ ~fnIn.band.nil

\* the ratio multiplier of the input is below 0.3
PreCompressed ==
    /\ ~fnIn.ds.nil
    /\ RatLess(GetCompressionModifiers(fnIn.ds.DynamicsScore).RatioMultiplier,
               Rat(3, 10))

\* a level in hundredths of a dB as the linear amplitude the chain carries,
\* kept between lo and 1
LinearWithin(db, lo) == Max(lo, Min(1000000, DbToLinear(db)))

\* C25: for a band with measurements and a ratio multiplier below 0.3 the
\* band chain has the threshold of peak - 1 dB, the makeup gain 1.0 and a
\* limiter with limit 1.0 (0 dB), attack 80 ms and release 2000 ms;
\* otherwise the limiter's limit is that of peak - 0.8 dB (not below
\* -24 dB nor above 0 dB).  (The code emits the limit of peak - 0.1 dB
\* for pre-compressed material.)
C25_PreCompressedBandChain ==
    BandBuilt =>
        IF PreCompressed
        THEN /\ fnOut.value.threshold =
                    LinearWithin(fnIn.band.PeakLevel - 100, 990)
             /\ fnOut.value.volume = 1000
             /\ fnOut.value.limit = 1000000
             /\ fnOut.value.limiterAttack = 80
             /\ fnOut.value.limiterRelease = 2000
        ELSE fnOut.value.limit =
                 LinearWithin(Max(-2400, fnIn.band.PeakLevel - 80), 0)


EqFilterBuilt == fnIn.fn = "buildEqFilter" /\ fnOut.applied

\* band i of the levels is at or below pinkNoiseRef, the mean of the levels
AtOrBelowReference(levels, i) ==
    Len(levels) * levels[i] <= SumLevels(levels, 1)

\* C21: with the Flat target, a band whose level is at or below its
\* reference has no filter in the chain buildEqFilter renders, and no band
\* has a gain above 0.  (The code does not satisfy the first half: the
\* shelf rules of clampExtremeEQ pull a shelf that was left alone towards
\* the other shelf or its neighbour.)
C21_FlatNeverBoostsNorCutsBelowReference ==
    EqFilterBuilt =>
        \A i \in 1..Len(fnIn.levels) :
            /\ AtOrBelowReference(fnIn.levels, i) =>
                   \A j \in 1..Len(fnOut.value.filterParts) :
                       fnOut.value.filterParts[j] # i
            /\ RatLeq(fnOut.value.gains[i], RatOf(0))

\* C22: with the Flat target and 10 bands all at -20 dB the overall RMS is
\* -20 dB, no band has a filter and the chain buildEqFilter returns is
\* empty.  (The code returns the chain "highpass=f=25:p=2".)
C22_AllBandsAlikeGiveEmptyChain ==
    (EqFilterBuilt /\ \A i \in 1..10 : fnIn.levels[i] = -20000) =>
        /\ RatEq(fnOut.value.overallRMS, RatOf(-20000))
        /\ fnOut.value.filterParts = <<>>
        /\ EqChainEmpty(fnOut.value)

====
